---- MODULE Spec2Model ----
(***************************************************************************)
(* Model of the crypto-news aggregator core: the X402 payment gate         *)
(* (app/middleware/x402.py, app/services/payment.py), the durable tables    *)
(* with their retention cleanup (app/models, app/workers/cleanup.py), the   *)
(* keyword categorizer, date normalizer and merger (app/agents), the write  *)
(* actors (app/queue/tasks.py), the Redis cache client                      *)
(* (app/cache/redis_client.py) and the trends handler                       *)
(* (app/controllers/markets_controller.py).                                 *)
(***************************************************************************)
EXTENDS Integers, Sequences, FiniteSets, TLC

VARIABLES
  pc,                \* pc[r]: position of request r inside X402PaymentMiddleware.dispatch
  req,               \* req[r]: [path, hash] of request r (hash = NoHash: header absent)
  events,            \* events[r]: the calls request r has made so far, in order
  handlerStatus,     \* handlerStatus[r]: status code call_next returned (0: not yet)
  status,            \* status[r]: status code sent to the client (0: not yet)
  body,              \* body[r]: who produced the response the client receives
  verifyAnswer,      \* verifyAnswer[r]: what the facilitator answered to /verify
  settleAnswer,      \* settleAnswer[r]: what the facilitator answered to /settle
  store,             \* rows of the payment_transactions table
  nextId,            \* next primary key handed out by the table
  now,               \* wall clock, in hours
  item,              \* the item handed to CategorizerAgent.categorize_item
  category,          \* the category categorize_item returned (NoCategory: not yet called)
  scores,            \* the category_scores dict categorize_item built (a ghost of its local)
  cat_items,         \* the list handed to CategorizerAgent.categorize_items, as the call leaves it
  categorized,       \* the buckets categorize_items returned (status "none": not yet called)
  news_items,        \* the news list handed to DataMergerAgent.merge_by_category
  tweets,            \* the tweet list handed to DataMergerAgent.merge_by_category
  merged,            \* what merge_by_category returned (status "none": not yet called)
  merged_data,       \* what merge_feeds returned (status "none": not yet called)
  unsorted,          \* the list handed to DateNormalizerAgent.sort_by_date
  descending,        \* the descending argument of that call
  sorted_items,      \* what sort_by_date returned (status "none": not yet called)
  signal_items,      \* rows of the signal_items table
  uuidNext,          \* number of the next value uuid.uuid4 hands out
  spc,               \* spc[w]: position of worker w inside save_signal_items
  smsg,              \* smsg[w]: the items argument of the delivery worker w runs
  si,                \* si[w]: index of the item the loop of worker w is at
  sadds,             \* sadds[w]: the rows worker w has passed to db.add
  deliveries,        \* number of deliveries the broker has made
  sdone,             \* sdone[b]: deliveries of batch b that have ended (history)
  scommitted,        \* scommitted[b]: deliveries of batch b whose commit went through (history)
  stransient,        \* stransient[b]: deliveries of batch b that ended on a store error (history)
  sretried,          \* sretried[b]: times the broker put batch b back on the queue for a retry (history)
  category_feeds,    \* rows of the category_feeds table
  feedNext,          \* number of the next id the category_feeds table hands out
  clock,             \* time.time(): wall clock, in seconds
  fpc,               \* fpc[w]: position of worker w inside save_category_feed
  fmsg,              \* fmsg[w]: the arguments of the delivery worker w runs
  fplan,             \* fplan[w]: what the delivery of worker w will write at its commit
  fdeliveries,       \* number of deliveries of save_category_feed the broker has made
  fcommitted,        \* number of those deliveries whose commit went through (history)
  fwritten,          \* the writes that went through, in order: category and time.time() of each (history)
  cleanupLog,        \* what the last run of a cleanup job logged (history)
  cache,             \* cache[k]: the Redis entry under key k
  lastGet,           \* what the last call of RedisClient.get returned (history)
  hreq,              \* hreq[r]: the locals of request r inside get_trends, and what it did (history)
  enqueued,          \* the messages the handlers have sent to the broker, in order
  hpath,             \* hpath[r]: the endpoint request r asked for ("none": none yet)
  deps,              \* deps.d: dependency d (db, cache, news, social) is reachable at boot
  checks,            \* checks.c: what check c of startup_checks came to
  phase,             \* where the process is: starting, checked, serving or exited
  date_value,        \* the value handed to DateNormalizerAgent.normalize_date
  date_result,       \* how that call ended: the datetime it returned, or that it raised
  api_key,           \* len(self.api_key) of CryptoNewsService (0: the key is missing)
  api_key_validated, \* self._api_key_validated
  api_key_invalid,   \* self._api_key_invalid
  client,            \* self.client is an httpx.AsyncClient (FALSE: it is None)
  fetches,           \* number of calls of the fetch methods made so far (history)
  got401,            \* a fetch has received a 401 from the upstream (history)
  last_fetch         \* the last call of a fetch method: what it met and returned (history)

vars == << pc, req, events, handlerStatus, status, body, verifyAnswer,
           settleAnswer, store, nextId, now, item, category, scores, cat_items,
           categorized, news_items, tweets, merged, merged_data, unsorted,
           descending, sorted_items, signal_items, uuidNext, spc, smsg, si,
           sadds, deliveries, sdone, scommitted, stransient, sretried,
           category_feeds, feedNext, clock, fpc, fmsg, fplan, fdeliveries,
           fcommitted, fwritten, cleanupLog, cache, lastGet, hreq, enqueued,
           hpath, deps, checks, phase, date_value, date_result, api_key,
           api_key_validated, api_key_invalid, client, fetches, got401,
           last_fetch >>

payVars == << pc, req, events, handlerStatus, status, body, verifyAnswer,
              settleAnswer, store, nextId, now >>

catVars == << item, category, scores, cat_items, categorized >>

mergeVars == << news_items, tweets, merged, merged_data >>

sortVars == << unsorted, descending, sorted_items >>

signalVars == << signal_items, uuidNext, spc, smsg, si, sadds, deliveries, sdone,
                 scommitted, stransient, sretried >>

feedVars == << category_feeds, feedNext, clock, fpc, fmsg, fplan, fdeliveries,
               fcommitted, fwritten >>

cleanupVars == << cleanupLog >>

cacheVars == << cache, lastGet >>

handlerVars == << hreq, enqueued, hpath >>

startupVars == << deps, checks, phase >>

dateVars == << date_value, date_result >>

newsVars == << api_key, api_key_validated, api_key_invalid, client, fetches, got401,
               last_fetch >>

\* what the payment gate leaves alone
nonPayVars == << item, category, scores, cat_items, categorized, news_items, tweets,
                 merged, merged_data, unsorted, descending, sorted_items, signal_items,
                 uuidNext, spc, smsg, si, sadds, deliveries, sdone, scommitted,
                 stransient, sretried, category_feeds, feedNext, clock, fpc, fmsg,
                 fplan, fdeliveries, fcommitted, fwritten, cleanupLog, cache, lastGet,
                 hreq, enqueued, hpath, deps, checks, phase, date_value, date_result,
                 api_key, api_key_validated, api_key_invalid, client, fetches, got401,
                 last_fetch >>

\* what the categorizer leaves alone
nonCatVars == << pc, req, events, handlerStatus, status, body, verifyAnswer,
                 settleAnswer, store, nextId, now, news_items, tweets, merged,
                 merged_data, unsorted, descending, sorted_items, signal_items,
                 uuidNext, spc, smsg, si, sadds, deliveries, sdone, scommitted,
                 stransient, sretried, category_feeds, feedNext, clock, fpc, fmsg,
                 fplan, fdeliveries, fcommitted, fwritten, cleanupLog, cache, lastGet,
                 hreq, enqueued, hpath, deps, checks, phase, date_value, date_result,
                 api_key, api_key_validated, api_key_invalid, client, fetches, got401,
                 last_fetch >>

\* what the merger leaves alone
nonMergeVars == << pc, req, events, handlerStatus, status, body, verifyAnswer,
                   settleAnswer, store, nextId, now, item, category, scores, cat_items,
                   categorized, unsorted, descending, sorted_items, signal_items,
                   uuidNext, spc, smsg, si, sadds, deliveries, sdone, scommitted,
                   stransient, sretried, category_feeds, feedNext, clock, fpc, fmsg,
                   fplan, fdeliveries, fcommitted, fwritten, cleanupLog, cache, lastGet,
                   hreq, enqueued, hpath, deps, checks, phase, date_value, date_result,
                   api_key, api_key_validated, api_key_invalid, client, fetches, got401,
                   last_fetch >>

\* what sort_by_date leaves alone
nonSortVars == << pc, req, events, handlerStatus, status, body, verifyAnswer,
                  settleAnswer, store, nextId, now, item, category, scores, cat_items,
                  categorized, news_items, tweets, merged, merged_data, signal_items,
                  uuidNext, spc, smsg, si, sadds, deliveries, sdone, scommitted,
                  stransient, sretried, category_feeds, feedNext, clock, fpc, fmsg,
                  fplan, fdeliveries, fcommitted, fwritten, cleanupLog, cache, lastGet,
                  hreq, enqueued, hpath, deps, checks, phase, date_value, date_result,
                  api_key, api_key_validated, api_key_invalid, client, fetches, got401,
                  last_fetch >>

\* what save_signal_items leaves alone
nonSignalVars == << pc, req, events, handlerStatus, status, body, verifyAnswer,
                    settleAnswer, store, nextId, now, item, category, scores, cat_items,
                    categorized, news_items, tweets, merged, merged_data, unsorted,
                    descending, sorted_items, category_feeds, feedNext, clock, fpc, fmsg,
                    fplan, fdeliveries, fcommitted, fwritten, cleanupLog, cache, lastGet,
                    hreq, enqueued, hpath, deps, checks, phase, date_value, date_result,
                    api_key, api_key_validated, api_key_invalid, client, fetches, got401,
                    last_fetch >>

\* what save_category_feed leaves alone
nonFeedVars == << pc, req, events, handlerStatus, status, body, verifyAnswer,
                  settleAnswer, store, nextId, now, item, category, scores, cat_items,
                  categorized, news_items, tweets, merged, merged_data, unsorted,
                  descending, sorted_items, signal_items, uuidNext, spc, smsg, si,
                  sadds, deliveries, sdone, scommitted, stransient, sretried,
                  cleanupLog, cache, lastGet, hreq, enqueued, hpath, deps, checks,
                  phase, date_value, date_result, api_key, api_key_validated,
                  api_key_invalid, client, fetches, got401, last_fetch >>

\* what the cleanup jobs leave alone
nonCleanupVars == << pc, req, events, handlerStatus, status, body, verifyAnswer,
                     settleAnswer, nextId, now, item, category, scores, cat_items,
                     categorized, news_items, tweets, merged, merged_data, unsorted,
                     descending, sorted_items, uuidNext, spc, smsg, si, sadds, deliveries,
                     sdone, scommitted, stransient, sretried, feedNext, clock, fpc, fmsg,
                     fplan, fdeliveries, fcommitted, fwritten, cache, lastGet, hreq,
                     enqueued, hpath, deps, checks, phase, date_value, date_result,
                     api_key, api_key_validated, api_key_invalid, client, fetches, got401,
                     last_fetch >>

\* what the passing of time leaves alone
nonClockVars == << pc, req, events, handlerStatus, status, body, verifyAnswer,
                   settleAnswer, store, nextId, item, category, scores, cat_items,
                   categorized, news_items, tweets, merged, merged_data, unsorted,
                   descending, sorted_items, signal_items, uuidNext, spc, smsg, si,
                   sadds, deliveries, sdone, scommitted, stransient, sretried,
                   category_feeds, feedNext, fpc, fmsg, fplan, fdeliveries, fcommitted,
                   fwritten, cleanupLog, cache, lastGet, hreq, enqueued, hpath, deps,
                   checks, phase, date_value, date_result, api_key, api_key_validated,
                   api_key_invalid, client, fetches, got401, last_fetch >>

\* what the cache client leaves alone
nonCacheVars == << pc, req, events, handlerStatus, status, body, verifyAnswer,
                   settleAnswer, store, nextId, now, item, category, scores, cat_items,
                   categorized, news_items, tweets, merged, merged_data, unsorted,
                   descending, sorted_items, signal_items, uuidNext, spc, smsg, si,
                   sadds, deliveries, sdone, scommitted, stransient, sretried,
                   category_feeds, feedNext, clock, fpc, fmsg, fplan, fdeliveries,
                   fcommitted, fwritten, cleanupLog, hreq, enqueued, hpath, deps, checks,
                   phase, date_value, date_result, api_key, api_key_validated,
                   api_key_invalid, client, fetches, got401, last_fetch >>

\* what get_trends leaves alone
nonHandlerVars == << pc, req, events, handlerStatus, status, body, verifyAnswer,
                     settleAnswer, store, nextId, now, item, category, scores, cat_items,
                     categorized, news_items, tweets, merged, merged_data, unsorted,
                     descending, sorted_items, signal_items, uuidNext, spc, smsg, si,
                     sadds, deliveries, sdone, scommitted, stransient, sretried,
                     category_feeds, feedNext, clock, fpc, fmsg, fplan, fdeliveries,
                     fcommitted, fwritten, cleanupLog, deps, checks, phase, date_value,
                     date_result, api_key, api_key_validated, api_key_invalid, client,
                     fetches, got401, last_fetch >>

\* what the startup sequence leaves alone
nonStartupVars == << pc, req, events, handlerStatus, status, body, verifyAnswer,
                     settleAnswer, store, nextId, now, item, category, scores, cat_items,
                     categorized, news_items, tweets, merged, merged_data, unsorted,
                     descending, sorted_items, signal_items, uuidNext, spc, smsg, si,
                     sadds, deliveries, sdone, scommitted, stransient, sretried,
                     category_feeds, feedNext, clock, fpc, fmsg, fplan, fdeliveries,
                     fcommitted, fwritten, cleanupLog, cache, lastGet, hreq, enqueued,
                     hpath, date_value, date_result, api_key, api_key_validated,
                     api_key_invalid, client, fetches, got401, last_fetch >>

\* what normalize_date leaves alone
nonDateVars == << pc, req, events, handlerStatus, status, body, verifyAnswer,
                  settleAnswer, store, nextId, now, item, category, scores, cat_items,
                  categorized, news_items, tweets, merged, merged_data, unsorted,
                  descending, sorted_items, signal_items, uuidNext, spc, smsg, si,
                  sadds, deliveries, sdone, scommitted, stransient, sretried,
                  category_feeds, feedNext, clock, fpc, fmsg, fplan, fdeliveries,
                  fcommitted, fwritten, cleanupLog, cache, lastGet, hreq, enqueued,
                  hpath, deps, checks, phase, api_key, api_key_validated,
                  api_key_invalid, client, fetches, got401, last_fetch >>

\* what the news service leaves alone
nonNewsVars == << pc, req, events, handlerStatus, status, body, verifyAnswer,
                  settleAnswer, store, nextId, now, item, category, scores, cat_items,
                  categorized, news_items, tweets, merged, merged_data, unsorted,
                  descending, sorted_items, signal_items, uuidNext, spc, smsg, si,
                  sadds, deliveries, sdone, scommitted, stransient, sretried,
                  category_feeds, feedNext, clock, fpc, fmsg, fplan, fdeliveries,
                  fcommitted, fwritten, cleanupLog, cache, lastGet, hreq, enqueued,
                  hpath, deps, checks, phase, date_value, date_result >>

----------------------------------------------------------------------------
(* Bounds of the model *)

MaxReq == 2

MaxTime == 50

TickHours == 25

Reqs == 1..MaxReq

\* longest feed handed to the merger
MaxItems == 2

\* the instants items are dated with are 1..MaxInstant
MaxInstant == 2

\* the instant at which the merger runs
MergeTime == 3

\* lengths of the feeds that exceed the limits of merge_feeds (20 and 10)
\* and of merge_by_category (50)
\* the longest list handed to categorize_items on its own
MaxBucketItems == 3

\* the largest timestamp datetime.fromtimestamp accepts
MaxStamp == 20

MidFeed == 24

LongFeed == 78

\* longest list handed to sort_by_date
MaxSort == 3

\* worker threads running the actors
MaxWorkers == 2

Workers == 1..MaxWorkers

\* deliveries the broker makes
MaxDeliveries == 3

\* calls of the fetch methods of the news service in one behaviour
MaxFetches == 3

\* the clock stops at MaxClock seconds
MaxClock == 4200

\* ten minutes, the short step of the clock
ShortStep == 600

\* the hour at which the cleanup jobs are observed
CleanupHour == 48

----------------------------------------------------------------------------
(* Payment gate: constants *)

NoHash == "none"

Hashes == {"h1", "h2"}

\* X402PaymentMiddleware.PAID_ENDPOINTS; a path is a sequence of pieces whose
\* concatenation is the URL path, so that startswith is the prefix relation.
PAID_ENDPOINTS ==
  << <<"/markets/trends">>, <<"/markets/liquidity">>, <<"/markets/agents">>,
     <<"/markets/macro_events">>, <<"/markets/proof_of_work">> >>

\* the routes registered by app/routes/markets.py and app/routes/health.py
Routes ==
  { <<"/markets/trends">>, <<"/markets/liquidity">>, <<"/markets/agents">>,
    <<"/markets/macro_events">>, <<"/markets/proof_of_work">>, <<"/health">> }

\* the requests the model draws from: path and X-Payment-Hash header
Requests ==
  { [path |-> <<"/markets/trends">>, hash |-> NoHash],
    [path |-> <<"/markets/trends">>, hash |-> "h1"],
    [path |-> <<"/markets/trends">>, hash |-> "h2"],
    [path |-> <<"/markets/trends", "/x">>, hash |-> "h1"],
    [path |-> <<"/health">>, hash |-> "h1"] }

RETENTION_HOURS == 24

\* time.time() - (24 * 3600)
SECONDS_PER_HOUR == 3600

\* str.startswith
StartsWith(p, e) == Len(e) <= Len(p) /\ SubSeq(p, 1, Len(e)) = e

\* the path has to be one of the endpoints, not to begin with one
IsPaid_ExactPath(p) == \E i \in 1..Len(PAID_ENDPOINTS) : p = PAID_ENDPOINTS[i]

\* any(request.url.path.startswith(endpoint) for endpoint in PAID_ENDPOINTS)
IsPaid(p) == \E i \in 1..Len(PAID_ENDPOINTS) : StartsWith(p, PAID_ENDPOINTS[i])

\* outcomes of one HTTP round trip to the facilitator: 200, another status,
\* or an exception raised by the client
FacilitatorOutcomes == {"ok", "status", "error"}

\* mutant: the except branch of verify_payment reports the hash as verified
verify_payment_ErrorVerifies(outcome) == outcome # "status"

\* PaymentService.verify_payment: the "verified" key of the returned dict
verify_payment(outcome) == outcome = "ok"

\* PaymentService.settle_payment: the "settled" key of the returned dict
settle_payment(outcome) == outcome = "ok"

\* status codes the router can answer for a path: a registered route answers
\* 200, or 500 when the controller raises; an unknown path answers 404
RouteStatuses(p) == IF p \in Routes THEN {200, 500} ELSE {404}

\* rows of payment_transactions carrying a given payment_hash
RowsOf(h) == { t \in store : t.payment_hash = h }

\* mutant: verified=True left out, so the column default (False) applies
PaymentTransaction_Unverified(id, h, p, t, u) ==
  [ id |-> id, payment_hash |-> h, endpoint |-> p, verified |-> FALSE,
    settled |-> FALSE, user_identifier |-> u, created_at |-> t,
    verified_at |-> -1, settled_at |-> -1 ]

\* PaymentTransaction(...) as built by dispatch; settled takes the column default
\* (user_identifier is the client's host: each request has its own client)
PaymentTransaction(id, h, p, t, u) ==
  [ id |-> id, payment_hash |-> h, endpoint |-> p, verified |-> TRUE,
    settled |-> FALSE, user_identifier |-> u, created_at |-> t,
    verified_at |-> t, settled_at |-> -1 ]

\* query(PaymentTransaction).filter(payment_hash == h).first()
FirstRow(h) == CHOOSE t \in RowsOf(h) : \A u \in RowsOf(h) : t.id <= u.id

Emit(r, e) == [events EXCEPT ![r] = Append(@, e)]

----------------------------------------------------------------------------
(* Payment gate: X402PaymentMiddleware.dispatch, one action per stretch of code
   between two awaits *)

\* mutant: the missing-header check is lost
HasPaymentHash_Always(h) == TRUE

\* `if not payment_hash` negated: the header is present and not empty
HasPaymentHash(h) == h # NoHash

\* mutant: the status test is inverted
ShouldSettle_Inverted(st) == st # 200

\* `if response.status_code == 200`
ShouldSettle(st) == st = 200

\* dispatch up to its first await: non-paid paths are forwarded, a paid path
\* without X-Payment-Hash (absent or empty) is answered 402 at once
Dispatch(r, p, h) ==
  /\ pc[r] = "idle"
  /\ req' = [req EXCEPT ![r] = [path |-> p, hash |-> h]]
  /\ IF ~IsPaid(p)
       THEN /\ pc' = [pc EXCEPT ![r] = "call"]
            /\ UNCHANGED << events, status, body >>
       ELSE IF ~HasPaymentHash(h)
         THEN /\ pc' = [pc EXCEPT ![r] = "done"]
              /\ status' = [status EXCEPT ![r] = 402]
              /\ body' = [body EXCEPT ![r] = "payment_required"]
              /\ events' = Emit(r, "challenge")
         ELSE /\ pc' = [pc EXCEPT ![r] = "verify"]
              /\ UNCHANGED << events, status, body >>
  /\ UNCHANGED << verifyAnswer, settleAnswer, handlerStatus,
                  store, nextId, now, nonPayVars >>

\* the "Log payment transaction" block: add + commit.  dbOk = FALSE is the
\* store failing; a row with the same payment_hash violates the unique
\* constraint.  Either exception is logged and swallowed (rollback).
InsertCommits(h, dbOk) == dbOk /\ RowsOf(h) = {}

\* verification = await payment_service.verify_payment(payment_hash), the 402
\* answer when it is not verified, else the logging block, up to call_next
VerifyPayment(r, outcome, dbOk) ==
  /\ pc[r] = "verify"
  /\ verifyAnswer' = [verifyAnswer EXCEPT ![r] = outcome]
  /\ IF ~verify_payment(outcome)
       THEN /\ pc' = [pc EXCEPT ![r] = "done"]
            /\ status' = [status EXCEPT ![r] = 402]
            /\ body' = [body EXCEPT ![r] = "verification_failed"]
            /\ events' = Emit(r, "verify")
            /\ UNCHANGED << store, nextId >>
       ELSE /\ pc' = [pc EXCEPT ![r] = "call"]
            /\ UNCHANGED << status, body >>
            /\ IF InsertCommits(req[r].hash, dbOk)
                 THEN /\ store' = store \cup
                           { PaymentTransaction(nextId, req[r].hash, req[r].path, now, r) }
                      /\ nextId' = nextId + 1
                      /\ events' = [events EXCEPT ![r] = @ \o <<"verify", "persist">>]
                 ELSE /\ events' = [events EXCEPT ![r] = @ \o <<"verify", "persist_failed">>]
                      /\ UNCHANGED << store, nextId >>
  /\ UNCHANGED << req, handlerStatus, settleAnswer, now, nonPayVars >>

\* response = await call_next(request): the wrapped handler starts
CallNext(r) ==
  /\ pc[r] = "call"
  /\ pc' = [pc EXCEPT ![r] = "handler"]
  /\ events' = Emit(r, "handler")
  /\ UNCHANGED << verifyAnswer, settleAnswer, req, handlerStatus, status,
                  body, store, nextId, now, nonPayVars >>

\* call_next returns; `if response.status_code == 200` decides on settlement
HandlerReturn(r, st) ==
  /\ pc[r] = "handler"
  /\ st \in RouteStatuses(req[r].path)
  /\ handlerStatus' = [handlerStatus EXCEPT ![r] = st]
  /\ events' = Emit(r, "handler_returned")
  /\ IF IsPaid(req[r].path) /\ ShouldSettle(st)
       THEN /\ pc' = [pc EXCEPT ![r] = "settle"]
            /\ UNCHANGED << status, body >>
       ELSE /\ pc' = [pc EXCEPT ![r] = "done"]
            /\ status' = [status EXCEPT ![r] = st]
            /\ body' = [body EXCEPT ![r] = "handler"]
  /\ UNCHANGED << verifyAnswer, settleAnswer, req, store, nextId, now, nonPayVars >>

\* the "Update transaction" block: query by payment_hash, set settled, commit.
\* A missing row is skipped; an exception is logged and swallowed (rollback).
UpdateCommits(h, dbOk) == dbOk /\ RowsOf(h) # {}

\* settlement = await payment_service.settle_payment(payment_hash, price), then
\* the update block when it settled; the handler's response is returned as is
SettlePayment(r, outcome, dbOk) ==
  /\ pc[r] = "settle"
  /\ settleAnswer' = [settleAnswer EXCEPT ![r] = outcome]
  /\ IF settle_payment(outcome)
       THEN IF UpdateCommits(req[r].hash, dbOk)
              THEN /\ store' = (store \ {FirstRow(req[r].hash)}) \cup
                        { [FirstRow(req[r].hash) EXCEPT !.settled = TRUE,
                                                        !.settled_at = now] }
                   /\ events' = [events EXCEPT ![r] = @ \o <<"settle", "settled">>]
              ELSE /\ events' = [events EXCEPT ![r] = @ \o <<"settle", "settled_unrecorded">>]
                   /\ UNCHANGED store
       ELSE /\ events' = Emit(r, "settle")
            /\ UNCHANGED store
  /\ pc' = [pc EXCEPT ![r] = "done"]
  /\ status' = [status EXCEPT ![r] = handlerStatus[r]]
  /\ body' = [body EXCEPT ![r] = "handler"]
  /\ UNCHANGED << req, handlerStatus, verifyAnswer, nextId, now, nonPayVars >>

\* cutoff_datetime = datetime.utcnow() - timedelta(hours=24)
cutoff_datetime == now - RETENTION_HOURS

\* cutoff_timestamp = time.time() - (24 * 3600)
cutoff_timestamp == clock - RETENTION_HOURS * SECONDS_PER_HOUR

\* the boundary row goes too
Older_OrEqual(t, cutoff) == t <= cutoff

\* the filter of the three DELETEs: time field < cutoff
Older(t, cutoff) == t < cutoff

OldSignals == { s \in signal_items : Older(s.timestamp, cutoff_timestamp) }

OldFeeds == { f \in category_feeds : Older(f.last_updated, cutoff_timestamp) }

OldPayments == { t \in store : Older(t.created_at, cutoff_datetime) }

\* CleanupWorker.cleanup_old_data: delete from the three tables the rows whose
\* time field is before the cutoff, in one transaction; an exception rolls
\* all three DELETEs back
CleanupOldData(dbOk) ==
  /\ signal_items' = IF dbOk THEN signal_items \ OldSignals ELSE signal_items
  /\ category_feeds' = IF dbOk THEN category_feeds \ OldFeeds ELSE category_feeds
  /\ store' = IF dbOk THEN store \ OldPayments ELSE store
  /\ UNCHANGED nonCleanupVars

\* the cleanup_old_signals actor: the same for signal_items and category_feeds
CleanupOldSignals(dbOk) ==
  /\ signal_items' = IF dbOk THEN signal_items \ OldSignals ELSE signal_items
  /\ category_feeds' = IF dbOk THEN category_feeds \ OldFeeds ELSE category_feeds
  /\ UNCHANGED << store, nonCleanupVars >>

\* what a run logs: whether it committed and its three deleted counts
CleanupLog(job, outcome, ns, nf, np) ==
  [job |-> job, outcome |-> outcome, deleted_signals |-> ns,
   deleted_feeds |-> nf, deleted_payments |-> np]

NoCleanupLog == CleanupLog("none", "none", 0, 0, 0)

\* a run of cleanup_old_data together with the line it logs
CleanupOldDataRun(dbOk) ==
  /\ CleanupOldData(dbOk)
  /\ cleanupLog' = IF dbOk
                     THEN CleanupLog("cleanup_old_data", "committed",
                                     Cardinality(OldSignals), Cardinality(OldFeeds),
                                     Cardinality(OldPayments))
                     ELSE CleanupLog("cleanup_old_data", "rolled_back", 0, 0, 0)

\* a run of cleanup_old_signals together with the line it logs
CleanupOldSignalsRun(dbOk) ==
  /\ CleanupOldSignals(dbOk)
  /\ cleanupLog' = IF dbOk
                     THEN CleanupLog("cleanup_old_signals", "committed",
                                     Cardinality(OldSignals), Cardinality(OldFeeds), 0)
                     ELSE CleanupLog("cleanup_old_signals", "rolled_back", 0, 0, 0)

\* time passes.  The clock counts hours and a request lasts seconds (the
\* facilitator client has a 30 s timeout), so the clock moves between requests.
Tick ==
  /\ \A r \in Reqs : pc[r] \in {"idle", "done"}
  /\ now + TickHours <= MaxTime
  /\ now' = now + TickHours
  /\ clock' = (now + TickHours) * SECONDS_PER_HOUR
  /\ UNCHANGED nonClockVars

----------------------------------------------------------------------------
(* Categorizer: CategorizerAgent.  Strings are sequences of one-character
   strings, so that lower() and the substring test `keyword in text` are
   computed character by character. *)

NoCategory == "none"

\* the keys of CATEGORY_KEYWORDS in dict (insertion) order
CategoryOrder == << "trends", "liquidity", "agents", "macro_events", "proof_of_work" >>

Categories == { CategoryOrder[i] : i \in 1..Len(CategoryOrder) }

KW_trends ==
  << <<"t","r","e","n","d">>,
     <<"t","r","e","n","d","i","n","g">>,
     <<"v","i","r","a","l">>,
     <<"p","o","p","u","l","a","r">>,
     <<"m","o","m","e","n","t","u","m">>,
     <<"s","u","r","g","e">>,
     <<"r","a","l","l","y">>,
     <<"p","u","m","p">>,
     <<"m","o","o","n">>,
     <<"b","u","l","l","i","s","h">>,
     <<"b","e","a","r","i","s","h">>,
     <<"s","e","n","t","i","m","e","n","t">> >>
KW_liquidity ==
  << <<"l","i","q","u","i","d","i","t","y">>,
     <<"v","o","l","u","m","e">>,
     <<"t","v","l">>,
     <<"t","r","a","d","i","n","g"," ","v","o","l","u","m","e">>,
     <<"m","a","r","k","e","t"," ","d","e","p","t","h">>,
     <<"l","i","q","u","i","d","a","t","i","o","n">>,
     <<"l","i","q","u","i","d","i","t","y"," ","p","o","o","l">>,
     <<"d","e","x">>,
     <<"s","w","a","p">>,
     <<"e","x","c","h","a","n","g","e">> >>
KW_agents ==
  << <<"a","g","e","n","t">>,
     <<"a","i">>,
     <<"b","o","t">>,
     <<"a","u","t","o","m","a","t","i","o","n">>,
     <<"v","i","r","t","u","a","l">>,
     <<"a","u","t","o","n","o","m","o","u","s">>,
     <<"a","i"," ","a","g","e","n","t">>,
     <<"l","l","m">>,
     <<"c","h","a","t","b","o","t">>,
     <<"g","a","m","e">>,
     <<"v","i","r","t","u","a","l","s">> >>
KW_macro_events ==
  << <<"f","e","d">>,
     <<"i","n","t","e","r","e","s","t"," ","r","a","t","e">>,
     <<"i","n","f","l","a","t","i","o","n">>,
     <<"r","e","g","u","l","a","t","i","o","n">>,
     <<"s","e","c">>,
     <<"g","o","v","e","r","n","m","e","n","t">>,
     <<"p","o","l","i","c","y">>,
     <<"b","a","n">>,
     <<"l","a","w">>,
     <<"c","o","m","p","l","i","a","n","c","e">>,
     <<"l","e","g","a","l">>,
     <<"e","t","f">>,
     <<"i","n","s","t","i","t","u","t","i","o","n","a","l">>,
     <<"b","l","a","c","k","r","o","c","k">>,
     <<"f","i","d","e","l","i","t","y">>,
     <<"e","l","e","c","t","i","o","n">> >>
KW_proof_of_work ==
  << <<"m","i","n","i","n","g">>,
     <<"m","i","n","e","r">>,
     <<"h","a","s","h","r","a","t","e">>,
     <<"d","i","f","f","i","c","u","l","t","y">>,
     <<"p","o","w">>,
     <<"p","r","o","o","f"," ","o","f"," ","w","o","r","k">>,
     <<"a","s","i","c">>,
     <<"g","p","u">>,
     <<"e","n","e","r","g","y">>,
     <<"b","i","t","c","o","i","n"," ","m","i","n","i","n","g">>,
     <<"e","t","h","e","r","e","u","m"," ","m","i","n","i","n","g">> >>

\* CATEGORY_KEYWORDS[c]
CATEGORY_KEYWORDS(c) ==
  CASE c = "trends" -> KW_trends
    [] c = "liquidity" -> KW_liquidity
    [] c = "agents" -> KW_agents
    [] c = "macro_events" -> KW_macro_events
    [] c = "proof_of_work" -> KW_proof_of_work

UpperCase ==
  << "A","B","C","D","E","F","G","H","I","J","K","L","M",
     "N","O","P","Q","R","S","T","U","V","W","X","Y","Z" >>

LowerCase ==
  << "a","b","c","d","e","f","g","h","i","j","k","l","m",
     "n","o","p","q","r","s","t","u","v","w","x","y","z" >>

\* str.lower on one character
LowerChar(c) ==
  IF \E i \in 1..Len(UpperCase) : UpperCase[i] = c
    THEN LowerCase[CHOOSE i \in 1..Len(UpperCase) : UpperCase[i] = c]
    ELSE c

\* str.lower
lower(s) == [i \in 1..Len(s) |-> LowerChar(s[i])]

\* `keyword in text` on strings: keyword occurs as a contiguous substring
Contains(text, keyword) ==
  \E i \in 1..(Len(text) - Len(keyword) + 1) :
    SubSeq(text, i, i + Len(keyword) - 1) = keyword

\* the text content of one field: item[f].lower() + " " when the key is present
FieldText(it, f) == IF f \in DOMAIN it THEN lower(it[f]) \o <<" ">> ELSE <<>>

\* the `text` local of categorize_item after the three `if ... in item` blocks
ItemText(it) ==
  FieldText(it, "title") \o FieldText(it, "content") \o FieldText(it, "text")

\* score = sum(1 for keyword in keywords if keyword in text)
Score(c, text) ==
  Cardinality({ i \in 1..Len(CATEGORY_KEYWORDS(c)) :
                  Contains(text, CATEGORY_KEYWORDS(c)[i]) })

\* the category_scores dict
category_scores(it) == [c \in Categories |-> Score(c, ItemText(it))]

\* max(d.values())
MaxValue(sc) == CHOOSE m \in { sc[c] : c \in Categories } :
                  \A c \in Categories : sc[c] <= m

RECURSIVE MaxKeyFrom(_, _, _)
\* max(d, key=d.get): iterate the keys in dict order, keep the first key whose
\* value is strictly greater than every one seen before
MaxKeyFrom(sc, i, best) ==
  IF i > Len(CategoryOrder) THEN best
  ELSE MaxKeyFrom(sc, i + 1,
         IF sc[CategoryOrder[i]] > sc[best] THEN CategoryOrder[i] ELSE best)

RECURSIVE MaxKeyFrom_LastWins(_, _, _)
MaxKeyFrom_LastWins(sc, i, best) ==
  IF i > Len(CategoryOrder) THEN best
  ELSE MaxKeyFrom_LastWins(sc, i + 1,
         IF sc[CategoryOrder[i]] >= sc[best] THEN CategoryOrder[i] ELSE best)

\* mutant: a tie goes to the key seen last (>= instead of >)
MaxKey_LastWins(sc) == MaxKeyFrom_LastWins(sc, 2, CategoryOrder[1])

MaxKey(sc) == MaxKeyFrom(sc, 2, CategoryOrder[1])

\* mutant: no default, an item without any keyword gets no taxonomy category
categorize_item_NoDefault(it) ==
  LET sc == category_scores(it)
  IN  IF MaxValue(sc) > 0 THEN MaxKey(sc) ELSE "uncategorized"

\* CategorizerAgent.categorize_item
categorize_item(it) ==
  LET sc == category_scores(it)
  IN  IF MaxValue(sc) > 0 THEN MaxKey(sc) ELSE "trends"

\* the texts the model draws field values from
P_empty == <<>>  \* ""
P_rally == <<"B","T","C"," ","R","a","l","l","y">>  \* "BTC Rally"
P_ai == <<"A","I">>  \* "AI"
P_agent == <<"a","g","e","n","t">>  \* "agent"
P_dex == <<"D","E","X"," ","s","w","a","p">>  \* "DEX swap"
P_sec == <<"S","E","C"," ","l","a","w">>  \* "SEC law"
P_miner == <<"B","T","C"," ","m","i","n","e","r"," ","h","a","s","h","r","a","t","e"," ","s","u","r","g","e","s">>  \* "BTC miner hashrate surges"
P_plain == <<"h","e","l","l","o">>  \* "hello"

Phrases == { P_empty, P_rally, P_ai, P_agent, P_dex, P_sec, P_miner, P_plain }

FieldNames == { "title", "content", "text" }

\* the dicts handed to categorize_item: any subset of the three keys present,
\* each present key holding a string
Items == UNION { [S -> Phrases] : S \in SUBSET FieldNames }

EmptyItem == [f \in {} |-> <<>>]

ZeroScores == [c \in Categories |-> 0]

\* one call of categorize_item on the current item
Categorize ==
  /\ category = NoCategory
  /\ category' = categorize_item(item)
  /\ scores' = category_scores(item)
  /\ UNCHANGED << item, cat_items, categorized, nonCatVars >>

\* item["category"] = category
WithCategory(it, c) ==
  [f \in DOMAIN it \cup {"category"} |-> IF f = "category" THEN c ELSE it[f]]

\* what a call of categorize_items leaves: the items of the list handed in,
\* each with its category set, and the dict of the five buckets returned
Buckets(st, items, buckets) == [status |-> st, items |-> items, buckets |-> buckets]

NoBuckets == Buckets("none", << >>, [c \in Categories |-> << >>])

\* every item goes to the first bucket
BucketOf_First(it) == CategoryOrder[1]

\* the bucket categorize_items appends an item to
BucketOf(it) == it.category

\* the loop of categorize_items: the category is computed and stored in the
\* item, and the item appended to the bucket of that category
categorize_items(items) ==
  LET tagged == [i \in 1..Len(items) |->
                   WithCategory(items[i], categorize_item(items[i]))]
  IN  Buckets("ok", tagged,
              [c \in Categories |-> SelectSeq(tagged, LAMBDA it : BucketOf(it) = c)])

\* one call of categorize_items
CategorizeItems ==
  /\ categorized.status = "none"
  /\ \E out \in { categorize_items(cat_items) } :
       /\ cat_items' = out.items
       /\ categorized' = out
  /\ UNCHANGED << item, category, scores, nonCatVars >>

----------------------------------------------------------------------------
(* Date normalizer and data merger: DateNormalizerAgent, DataMergerAgent.
   A datetime is [t, aware]: t is the instant it shows and aware tells whether
   it carries a UTC offset.  Python refuses to order a naive and an aware
   datetime (TypeError). *)

\* sorted_items[:50] in merge_by_category
ITEMS_LIMIT == 50

\* content[:500] in _format_items
CONTENT_LIMIT == 500

SortUrls == {"a", "b", "c"}

datetime(t, aware) == [t |-> t, aware |-> aware]

\* datetime.min, the sort key of an item without normalized_date
datetime_min == datetime(0, FALSE)

\* datetime.utcnow() at the time of the call: a naive datetime
utcnow == datetime(MergeTime, FALSE)

\* The values a date field can hold, by what normalize_date does with them:
\*   "datetime"    a datetime object
\*   "number"      an int or float (Unix timestamp)
\*   "iso"         a string datetime.fromisoformat accepts; aware iff it ends in
\*                 Z or an offset
\*   "text"        a string only dateutil's parser accepts
\*   "unparsable"  a string neither accepts ("", "now")
\*   "other"       any other type (None, a list)
DateValue(kind, t, aware) == [kind |-> kind, t |-> t, aware |-> aware]

Unparsable == DateValue("unparsable", 0, FALSE)

\* None, or a value of a type normalize_date has no branch for
OtherType == DateValue("other", 0, FALSE)

\* the values of the model: datetimes and date strings naive and aware,
\* timestamps inside and outside the range of fromtimestamp, a string no
\* parser accepts, and a value of another type
DateValues ==
  { DateValue(k, t, a) : k \in {"datetime", "iso", "text"}, t \in 0..MaxStamp, a \in BOOLEAN }
    \cup { DateValue("number", t, FALSE) : t \in 0..(MaxStamp + 2) }
    \cup { Unparsable, OtherType }

\* how a call ends: with the datetime it returns, or by raising
Returned(d) == [raised |-> FALSE, value |-> d]
Raised == [raised |-> TRUE, value |-> datetime_min]

\* datetime.fromtimestamp(v): a naive datetime; raises (OverflowError,
\* OSError, ValueError) for a number outside the range of the platform
fromtimestamp(v) ==
  IF v.t <= MaxStamp THEN Returned(datetime(v.t, FALSE)) ELSE Raised

\* datetime.fromisoformat(s.replace('Z', '+00:00'))
fromisoformat(v) ==
  IF v.kind = "iso" THEN Returned(datetime(v.t, v.aware)) ELSE Raised

\* dateutil.parser.parse(s)
parse(v) ==
  IF v.kind \in {"iso", "text"} THEN Returned(datetime(v.t, v.aware)) ELSE Raised

\* the body of the outer try of normalize_date; the two inner try blocks
\* pass over whatever the parsers raise
normalize_date_body(v) ==
  IF v.kind = "datetime" THEN Returned(datetime(v.t, v.aware))
  ELSE IF v.kind = "number" THEN fromtimestamp(v)
  ELSE IF v.kind \in {"iso", "text", "unparsable"}
         THEN IF ~ fromisoformat(v).raised THEN fromisoformat(v)
              ELSE IF ~ parse(v).raised THEN parse(v)
              ELSE Returned(utcnow)
  ELSE Returned(utcnow)

\* the exception leaves the function
Handled_Propagates(outcome) == outcome

\* except Exception: log the error, return datetime.utcnow()
Handled(outcome) == IF outcome.raised THEN Returned(utcnow) ELSE outcome

\* the call of normalize_date with its outcome
normalize_date_call(v) == Handled(normalize_date_body(v))

normalize_date(v) == normalize_date_call(v).value

\* datetime.isoformat(): the ISO string of d, with its offset when d is aware
isoformat(d) == DateValue("iso", d.t, d.aware)

\* dict.get(f, default)
Get(it, f, default) == IF f \in DOMAIN it THEN it[f] ELSE default

\* item.copy() with normalized["normalized_date"] = d
WithNormalizedDate(it, d) ==
  [f \in DOMAIN it \cup {"normalized_date"} |->
     IF f = "normalized_date" THEN d ELSE it[f]]

normalize_item(it) ==
  IF "published_at" \in DOMAIN it
    THEN WithNormalizedDate(it, normalize_date(it.published_at))
    ELSE IF "created_at" \in DOMAIN it
           THEN WithNormalizedDate(it, normalize_date(it.created_at))
           ELSE WithNormalizedDate(it, utcnow)

NoDate == [status |-> "none", raised |-> FALSE, value |-> datetime_min]

\* one call of DateNormalizerAgent.normalize_date
NormalizeDate ==
  /\ date_result.status = "none"
  /\ \E out \in { normalize_date_call(date_value) } :
       date_result' = [status |-> "done", raised |-> out.raised, value |-> out.value]
  /\ UNCHANGED << date_value, nonDateVars >>

\* an item without normalized_date is given a key later than every date
SortKey_MissingIsNewest(x) == Get(x, "normalized_date", datetime(MaxInstant + 1, FALSE))

\* key=lambda x: x.get("normalized_date", datetime.min)
SortKey(x) == Get(x, "normalized_date", datetime_min)

\* a < b raises TypeError when one datetime is naive and the other aware
Comparable(a, b) == a.aware = b.aware

\* sorted() has to order every pair of keys, so it raises as soon as two of
\* them cannot be compared
SortRaises(items) ==
  \E i, j \in 1..Len(items) : ~Comparable(SortKey(items[i]), SortKey(items[j]))

\* ties are swapped: an item goes before the items of equal key that came
\* earlier in the input
GoesBefore_TiesSwapped(x, y, desc) ==
  IF desc THEN SortKey(y).t <= SortKey(x).t ELSE SortKey(x).t <= SortKey(y).t

\* sorted(..., reverse=desc) is stable: x, later in the input than y, goes
\* before y only when its key is strictly on the front side of y's
GoesBefore(x, y, desc) ==
  IF desc THEN SortKey(y).t < SortKey(x).t ELSE SortKey(x).t < SortKey(y).t

RECURSIVE InsertByDate(_, _, _, _)
\* put x into the ordered list s, scanning from position i
InsertByDate(s, x, desc, i) ==
  IF i > Len(s) THEN Append(s, x)
  ELSE IF GoesBefore(x, s[i], desc)
         THEN SubSeq(s, 1, i - 1) \o << x >> \o SubSeq(s, i, Len(s))
         ELSE InsertByDate(s, x, desc, i + 1)

RECURSIVE SortFrom(_, _, _, _)
SortFrom(items, i, acc, desc) ==
  IF i > Len(items) THEN acc
  ELSE SortFrom(items, i + 1, InsertByDate(acc, items[i], desc, 1), desc)

\* the outcome of a call: status "ok" with the list returned, or "raised"
SortResult(st, items) == [status |-> st, items |-> items]

NoSort == SortResult("none", << >>)

sort_by_date(items, desc) ==
  IF SortRaises(items) THEN SortResult("raised", << >>)
  ELSE SortResult("ok", SortFrom(items, 1, << >>, desc))

\* the filter lets every item through
InCategory_Any(it, c) == TRUE

\* the test of the two list comprehensions of merge_by_category
InCategory(it, c) == categorize_item(it) = c

Normalized(items) == [i \in 1..Len(items) |-> normalize_item(items[i])]

\* the filter is applied to the first ITEMS_LIMIT items of each feed only
Filtered_AfterTruncation(items, c) ==
  SelectSeq(Normalized(SubSeq(items, 1, IF Len(items) < ITEMS_LIMIT THEN Len(items) ELSE ITEMS_LIMIT)),
            LAMBDA it : InCategory(it, c))

Filtered(items, c) == SelectSeq(Normalized(items), LAMBDA it : InCategory(it, c))

\* the tweets are put first
all_items_TweetsFirst(news, tw) == tw \o news

\* all_items: the news, then the tweets
all_items(news, tw) == news \o tw

Head50(s) == SubSeq(s, 1, IF Len(s) < ITEMS_LIMIT THEN Len(s) ELSE ITEMS_LIMIT)

\* one entry of _format_items; the items of the model carry source, url and
\* the text fields of their source, the other fields are copied through
format_item(it) ==
  LET base == [source |-> it.source,
               published_at |-> isoformat(it.normalized_date),
               url |-> Get(it, "url", << >>)]
      content == Get(it, "content", << >>)
      cut == SubSeq(content, 1, IF Len(content) < CONTENT_LIMIT
                                  THEN Len(content) ELSE CONTENT_LIMIT)
  IN  IF it.source = "cryptonews"
        THEN [f \in DOMAIN base \cup {"title", "content"} |->
                IF f = "title" THEN it.title
                ELSE IF f = "content" THEN cut ELSE base[f]]
        ELSE IF it.source = "twitter"
               THEN [f \in DOMAIN base \cup {"text"} |->
                       IF f = "text" THEN it.text ELSE base[f]]
               ELSE base

format_items(items) == [i \in 1..Len(items) |-> format_item(items[i])]

\* the outcome of merge_by_category: the dict it returns, or "raised" when
\* sort_by_date raised
MergeResult(st, c, total, n, t, items) ==
  [status |-> st, category |-> c, total_items |-> total, news_count |-> n,
   tweets_count |-> t, items |-> items,
   timestamp |-> isoformat(normalize_date(Unparsable))]

NoMerge == MergeResult("none", NoCategory, 0, 0, 0, << >>)

merge_by_category(c, news, tw) ==
  LET news_filtered == Filtered(news, c)
      tweets_filtered == Filtered(tw, c)
      combined == all_items(news_filtered, tweets_filtered)
      sorted == sort_by_date(combined, TRUE)
  IN  IF sorted.status = "raised"
        THEN MergeResult("raised", c, 0, 0, 0, << >>)
        ELSE MergeResult("ok", c, Len(sorted.items), Len(news_filtered),
                         Len(tweets_filtered), format_items(Head50(sorted.items)))

\* the feeds of the model
Instants == 1..MaxInstant

\* what fetch_trending_news builds from one article
NewsItem(ti, d) ==
  [source |-> "cryptonews", url |-> << "n" >>, title |-> ti,
   content |-> P_empty, published_at |-> d]

\* what _normalize_tweets builds from one tweet
Tweet(tx, d) ==
  [source |-> "twitter", url |-> << "t" >>, text |-> tx, created_at |-> d]

NewsPool ==
  { NewsItem(P_rally, DateValue("iso", 1, TRUE)),
    NewsItem(P_rally, DateValue("iso", 2, TRUE)),
    NewsItem(P_dex, DateValue("iso", 1, TRUE)) }

TweetPool ==
  { Tweet(P_rally, DateValue("iso", 1, TRUE)),
    Tweet(P_rally, Unparsable),
    Tweet(P_agent, DateValue("iso", 1, TRUE)) }

\* the lists of at most n elements of S
ListsOf(S, n) == UNION { [1..k -> S] : k \in 0..n }

\* one call of merge_by_category
MergeByCategory(c) ==
  /\ merged.status = "none"
  /\ merged' = merge_by_category(c, news_items, tweets)
  /\ UNCHANGED << news_items, tweets, merged_data, nonMergeVars >>

\* sorted_items[:20] and items[:10] of merge_feeds
RECENT_LIMIT == 20

BUCKET_LIMIT == 10

\* s[:n]
Take(s, n) == SubSeq(s, 1, IF Len(s) < n THEN Len(s) ELSE n)

\* the outcome of merge_feeds: the dict it returns, or "raised" when
\* sort_by_date raised
MergedData(st, total, n, t, cats, recent) ==
  [status |-> st, total_items |-> total, news_count |-> n, tweets_count |-> t,
   categories |-> cats, recent_items |-> recent,
   timestamp |-> isoformat(normalize_date(Unparsable))]

NoMergedData == MergedData("none", 0, 0, 0, << >>, << >>)

\* the count is that of the items shown
CategoryEntry_CountsShown(items) ==
  [count |-> Len(Take(items, BUCKET_LIMIT)),
   items |-> format_items(Take(items, BUCKET_LIMIT))]

\* merged_data["categories"][category] of one bucket
CategoryEntry(items) ==
  [count |-> Len(items), items |-> format_items(Take(items, BUCKET_LIMIT))]

merge_feeds(news, tw) ==
  LET normalized_news == Normalized(news)
      normalized_tweets == Normalized(tw)
      sorted == sort_by_date(all_items(normalized_news, normalized_tweets), TRUE)
  IN  IF sorted.status = "raised"
        THEN MergedData("raised", 0, 0, 0, << >>, << >>)
        ELSE LET done == categorize_items(sorted.items)
             IN  MergedData("ok", Len(sorted.items), Len(normalized_news),
                            Len(normalized_tweets),
                            [c \in Categories |-> CategoryEntry(done.buckets[c])],
                            Take(done.items, RECENT_LIMIT))

\* one call of merge_feeds
MergeFeeds ==
  /\ merged_data.status = "none"
  /\ merged_data' = merge_feeds(news_items, tweets)
  /\ UNCHANGED << news_items, tweets, merged, nonMergeVars >>

\* article number i of a feed: two of three are about a rally, the third
\* about a DEX; the dates alternate between two instants
Article(i) ==
  [source |-> "cryptonews", url |-> << "n", i >>,
   title |-> IF i % 3 = 0 THEN P_dex ELSE P_rally, content |-> P_empty,
   published_at |-> DateValue("iso", 1 + (i % 2), TRUE)]

\* tweet number i of a feed: every other one is about a rally, the others
\* about agents; the dates run over three instants
Post(i) ==
  [source |-> "twitter", url |-> << "t", i >>,
   text |-> IF i % 2 = 0 THEN P_agent ELSE P_rally,
   created_at |-> DateValue("iso", 1 + (i % 3), TRUE)]

\* the feeds of n articles and of n tweets
News(n) == [i \in 1..n |-> Article(i)]

Posts(n) == [i \in 1..n |-> Post(i)]

\* the items sort_by_date is handed: normalized or not, naive or aware
SortPool ==
  { [url |-> u] : u \in SortUrls }
    \cup { [url |-> u, normalized_date |-> datetime(t, a)] :
             u \in SortUrls, t \in Instants, a \in BOOLEAN }

\* lists whose items are told apart by their url
DistinctUrls(s) == \A i, j \in 1..Len(s) : i # j => s[i].url # s[j].url

\* one call of sort_by_date
SortByDate ==
  /\ sorted_items.status = "none"
  /\ sorted_items' = sort_by_date(unsorted, descending)
  /\ UNCHANGED << unsorted, descending, nonSortVars >>

----------------------------------------------------------------------------
(* Signal writes: the save_signal_items actor (app/queue/tasks.py) and the
   signal_items table (app/models/news.py).  The broker delivers a message at
   least once and several worker threads run the actor side by side; the
   SELECTs of the loop and the final commit of one delivery are separate
   steps. *)

\* item.get("id") of an item without id
NoneId == << >>

\* a value uuid.uuid4 hands out
uuid4(n) == << "uuid4", n >>

\* an item of a batch: the keys save_signal_items reads
SignalPayload(id, signal, timestamp) ==
  [id |-> id, signal |-> signal, timestamp |-> timestamp]

SigA == SignalPayload(<< "a" >>, "BTC up", 0)

SigB == SignalPayload(<< "b" >>, "ETH down", 0)

SigNoId == SignalPayload(NoneId, "SOL flat", 0)

\* the messages the broker delivers to save_signal_items
SignalBatches == { << SigA >>, << SigA, SigB >>, << SigNoId >>, << SigA, SigB, SigA >> }

\* db.query(SignalItem).filter(SignalItem.id == id): no row has a NULL id
RowsWithId(id) == { r \in signal_items : id # NoneId /\ r.id = id }

\* the item's id is not passed on: every row gets the column default
SignalItem_DefaultId(it) ==
  [id |-> NoneId, signal |-> it.signal, timestamp |-> it.timestamp]

\* SignalItem(id=item.get("id"), signal=..., timestamp=...)
SignalItem(it) == [id |-> it.id, signal |-> it.signal, timestamp |-> it.timestamp]

\* the flush gives a row without id the column default uuid.uuid4()
RECURSIVE Flushed(_, _, _)
Flushed(adds, i, n) ==
  IF i > Len(adds) THEN { }
  ELSE IF adds[i].id = NoneId
         THEN { [adds[i] EXCEPT !.id = uuid4(n)] } \cup Flushed(adds, i + 1, n + 1)
         ELSE { adds[i] } \cup Flushed(adds, i + 1, n)

NoneIds(adds) == Cardinality({ i \in 1..Len(adds) : adds[i].id = NoneId })

\* the primary key rejects the INSERTs when an id is already in the table or
\* occurs twice among the pending rows
PrimaryKeyConflict(adds) ==
  \/ \E i \in 1..Len(adds) : RowsWithId(adds[i].id) # { }
  \/ \E i, j \in 1..Len(adds) :
       i # j /\ adds[i].id # NoneId /\ adds[i].id = adds[j].id

\* a worker takes a delivery of batch b
SaveSignalItemsStart(w, b) ==
  /\ spc[w] = "idle"
  /\ deliveries < MaxDeliveries
  /\ deliveries' = deliveries + 1
  /\ spc' = [spc EXCEPT ![w] = "loop"]
  /\ smsg' = [smsg EXCEPT ![w] = b]
  /\ si' = [si EXCEPT ![w] = 1]
  /\ sadds' = [sadds EXCEPT ![w] = << >>]
  /\ UNCHANGED << signal_items, uuidNext, sdone, scommitted, stransient, sretried,
                  nonSignalVars >>

\* one turn of the loop: SELECT by id, db.add when nothing was found
SaveSignalItemsItem(w) ==
  /\ spc[w] = "loop"
  /\ si[w] <= Len(smsg[w])
  /\ LET it == smsg[w][si[w]]
     IN  sadds' = [sadds EXCEPT ![w] =
                     IF RowsWithId(it.id) = { } THEN Append(@, SignalItem(it)) ELSE @]
  /\ si' = [si EXCEPT ![w] = @ + 1]
  /\ UNCHANGED << signal_items, uuidNext, spc, smsg, deliveries, sdone,
                  scommitted, stransient, sretried, nonSignalVars >>

\* max_retries=3 of the actor: how often the broker puts a message whose
\* actor raised back on the queue
MAX_RETRIES == 3

\* whether an exception of the write leaves the actor: "except Exception"
\* logs it and rolls back, so the actor returns None whatever happened
ActorRaises(failed) == FALSE

\* the broker retries a message when its actor raised and the message has
\* been retried fewer than max_retries times
Requeues(raised, retries) == raised /\ retries < MAX_RETRIES

\* db.commit() writes the pending rows, or raises; the except branch logs,
\* rolls back and returns, so the delivery ends either way and the broker
\* sees an actor that returned
SaveSignalItemsCommit(w, dbOk) ==
  /\ spc[w] = "loop"
  /\ si[w] > Len(smsg[w])
  /\ LET ok == dbOk /\ ~PrimaryKeyConflict(sadds[w])
     IN  /\ signal_items' = IF ok THEN signal_items \cup Flushed(sadds[w], 1, uuidNext)
                                  ELSE signal_items
         /\ uuidNext' = IF ok THEN uuidNext + NoneIds(sadds[w]) ELSE uuidNext
         /\ scommitted' = [scommitted EXCEPT ![smsg[w]] = IF ok THEN @ + 1 ELSE @]
         /\ stransient' = [stransient EXCEPT ![smsg[w]] = IF dbOk THEN @ ELSE @ + 1]
         /\ sretried' = [sretried EXCEPT ![smsg[w]] =
                           IF Requeues(ActorRaises(~ok), @) THEN @ + 1 ELSE @]
  /\ sdone' = [sdone EXCEPT ![smsg[w]] = @ + 1]
  /\ spc' = [spc EXCEPT ![w] = "idle"]
  /\ sadds' = [sadds EXCEPT ![w] = << >>]
  /\ si' = [si EXCEPT ![w] = 1]
  /\ smsg' = [smsg EXCEPT ![w] = << >>]
  /\ UNCHANGED << deliveries, nonSignalVars >>

----------------------------------------------------------------------------
(* Snapshot writes: the save_category_feed actor (app/queue/tasks.py) and the
   category_feeds table (app/models/news.py).  The SELECT of the latest
   snapshot and the commit of one delivery are separate steps.  The clock
   counts seconds, as time.time() does. *)

\* if existing and (current_timestamp - existing.last_updated) < 3600
SNAPSHOT_WINDOW == 3600

\* the messages the broker delivers to save_category_feed: a category and
\* a list of items
FeedMessage(c, items) == [category |-> c, items |-> items]

FeedMessages ==
  { FeedMessage("trends", << "x" >>), FeedMessage("trends", << "y", "z" >>),
    FeedMessage("liquidity", << "x" >>) }

NoFeedMessage == FeedMessage(NoCategory, << >>)

\* CategoryFeed(category=..., items=..., item_count=..., last_updated=...)
CategoryFeed(id, c, items, ts, created) ==
  [id |-> id, category |-> c, items |-> items, item_count |-> Len(items),
   last_updated |-> ts, created_at |-> created]

FeedsOf(c) == { f \in category_feeds : f.category = c }

\* .order_by(CategoryFeed.last_updated.desc()).first(): the rows that can come
\* first (two rows of equal last_updated come in either order)
LatestFeeds(c) ==
  { f \in FeedsOf(c) : \A g \in FeedsOf(c) : g.last_updated <= f.last_updated }

\* the window is never open: every write inserts
WithinWindow_Never(existing, current_timestamp) == FALSE

WithinWindow(existing, current_timestamp) ==
  (current_timestamp - existing.last_updated) < SNAPSHOT_WINDOW

\* what the delivery has decided to write: the fields of `existing` to set, or
\* the row to add; seen is the table the SELECT ran on
FeedPlan(op, id, ts, seen) == [op |-> op, id |-> id, ts |-> ts, seen |-> seen]

NoPlan == FeedPlan("none", NoneId, 0, { })

\* a worker takes a delivery of message m: SELECT, time.time(), and the branch
SaveCategoryFeedQuery(w, m) ==
  /\ fpc[w] = "idle"
  /\ fdeliveries < MaxDeliveries
  /\ fdeliveries' = fdeliveries + 1
  /\ fpc' = [fpc EXCEPT ![w] = "commit"]
  /\ fmsg' = [fmsg EXCEPT ![w] = m]
  /\ \/ /\ LatestFeeds(m.category) = { }
        /\ fplan' = [fplan EXCEPT ![w] = FeedPlan("insert", NoneId, clock, category_feeds)]
     \/ \E existing \in LatestFeeds(m.category) :
          fplan' = [fplan EXCEPT ![w] =
                      IF WithinWindow(existing, clock)
                        THEN FeedPlan("update", existing.id, clock, category_feeds)
                        ELSE FeedPlan("insert", NoneId, clock, category_feeds)]
  /\ UNCHANGED << category_feeds, feedNext, clock, fcommitted, fwritten, nonFeedVars >>

\* a write that went through: its category and its current_timestamp
FeedWrite(c, ts) == [category |-> c, at |-> ts]

\* the UPDATE of db.commit() finds its row
RowPresent(id) == \E f \in category_feeds : f.id = id

\* db.commit() writes the change, or raises; the except branch logs, rolls
\* back and returns
SaveCategoryFeedCommit(w, dbOk) ==
  /\ fpc[w] = "commit"
  /\ LET p == fplan[w]
         m == fmsg[w]
     IN  IF p.op = "update" /\ dbOk /\ RowPresent(p.id)
           THEN /\ category_feeds' =
                     { IF f.id = p.id
                         THEN [f EXCEPT !.items = m.items,
                                        !.item_count = Len(m.items),
                                        !.last_updated = p.ts]
                         ELSE f : f \in category_feeds }
                /\ fcommitted' = fcommitted + 1
                /\ fwritten' = Append(fwritten, FeedWrite(m.category, p.ts))
                /\ UNCHANGED feedNext
           ELSE IF p.op = "insert" /\ dbOk
                  THEN /\ category_feeds' = category_feeds \cup
                            { CategoryFeed(uuid4(feedNext), m.category, m.items, p.ts, clock) }
                       /\ feedNext' = feedNext + 1
                       /\ fcommitted' = fcommitted + 1
                       /\ fwritten' = Append(fwritten, FeedWrite(m.category, p.ts))
                  ELSE UNCHANGED << category_feeds, feedNext, fcommitted, fwritten >>
  /\ fpc' = [fpc EXCEPT ![w] = "idle"]
  /\ fmsg' = [fmsg EXCEPT ![w] = NoFeedMessage]
  /\ fplan' = [fplan EXCEPT ![w] = NoPlan]
  /\ UNCHANGED << fdeliveries, clock, nonFeedVars >>

\* time passes between deliveries and between requests (a delivery lasts
\* milliseconds, a request at most the seconds of its upstream timeouts)
TickClock(d) ==
  /\ \A w \in Workers : fpc[w] = "idle" /\ spc[w] = "idle"
  /\ \A r \in DOMAIN hreq : hreq[r].pc \in {"idle", "done"}
  /\ clock + d <= MaxClock
  /\ clock' = clock + d
  /\ now' = (clock + d) \div SECONDS_PER_HOUR
  /\ UNCHANGED nonClockVars

----------------------------------------------------------------------------
(* Cache: RedisClient (app/cache/redis_client.py).  A Python value is
   [type, v]; what Redis stores is the JSON text json.dumps makes of it, and
   what get hands back is what json.loads makes of that text. *)

\* settings.REDIS_TTL
REDIS_TTL == 3600

PyValue(type, v) == [type |-> type, v |-> v]

\* None
PyNone == PyValue("NoneType", << >>)

\* a JSON text: its kind and its content
JsonText(kind, v) == [json |-> kind, v |-> v]

\* json.dumps(value, default=str): dict -> object, list and tuple -> array,
\* str -> string, None -> null, and a type JSON does not know (datetime)
\* -> the string str(value)
json_dumps(value) ==
  IF value.type = "dict" THEN JsonText("object", value.v)
  ELSE IF value.type \in {"list", "tuple"} THEN JsonText("array", value.v)
  ELSE IF value.type = "str" THEN JsonText("string", value.v)
  ELSE IF value.type = "NoneType" THEN JsonText("null", << >>)
  ELSE JsonText("string", value.v)

\* json.loads(text): object -> dict, array -> list, string -> str, null -> None
json_loads(text) ==
  IF text.json = "object" THEN PyValue("dict", text.v)
  ELSE IF text.json = "array" THEN PyValue("list", text.v)
  ELSE IF text.json = "string" THEN PyValue("str", text.v)
  ELSE IF text.json = "null" THEN PyNone
  ELSE PyValue(text.json, text.v)

\* the values JSON represents without conversion
JsonNative(value) == value.type \in {"dict", "list", "str", "NoneType"}

\* the keys and values the model hands to the cache
CacheKeys == { "markets:trends", "markets:liquidity" }

CacheValues ==
  { PyValue("dict", << "category", "trends" >>),
    PyValue("datetime", << "2024-01-01 00:00:00" >>),
    PyNone }

\* a Redis entry: the text stored, the second at which it expires, and the
\* value set was called with (history)
CacheEntry(text, expires_at, given) ==
  [text |-> text, expires_at |-> expires_at, given |-> given]

\* no entry under the key
NoEntry == CacheEntry(JsonText("none", << >>), 0, PyNone)

\* the entry was stored without expiry
Live_NeverExpires(k) == cache[k] # NoEntry

\* Redis has the key: an entry was stored and its TTL has not elapsed
Live(k) == cache[k] # NoEntry /\ clock < cache[k].expires_at

\* what a call of get returned, and whether it logged an error
GetResult(k, ret, failed) == [key |-> k, ret |-> ret, failed |-> failed]

NoGet == GetResult("none", PyNone, FALSE)

\* the entry a set leaves in Redis without looking at what is there: kept
\* when an unexpired entry exists
Stored_IfAbsent(k, value, ttl, up) ==
  IF up /\ ~(cache[k].expires_at > clock)
    THEN [cache EXCEPT ![k] =
            CacheEntry(json_dumps(value),
                       clock + (IF ttl # 0 THEN ttl ELSE REDIS_TTL), value)]
    ELSE cache

\* Redis after setex(key, ttl or REDIS_TTL, json.dumps(value)); ttl = 0
\* stands for ttl=None (both take the default); up: Redis answers
Stored(k, value, ttl, up) ==
  IF up
    THEN [cache EXCEPT ![k] =
            CacheEntry(json_dumps(value),
                       clock + (IF ttl # 0 THEN ttl ELSE REDIS_TTL), value)]
    ELSE cache

\* what get returns: the decoded entry, or None when the key is absent or
\* expired or Redis does not answer
Got(k, up) ==
  IF ~up THEN GetResult(k, PyNone, TRUE)
  ELSE IF Live(k) THEN GetResult(k, json_loads(cache[k].text), FALSE)
  ELSE GetResult(k, PyNone, FALSE)

\* RedisClient.set(key, value, ttl)
CacheSet(k, value, ttl, up) ==
  /\ cache' = Stored(k, value, ttl, up)
  /\ UNCHANGED << lastGet, nonCacheVars >>

\* RedisClient.get(key)
CacheGet(k, up) ==
  /\ lastGet' = Got(k, up)
  /\ UNCHANGED << cache, nonCacheVars >>

----------------------------------------------------------------------------
(* The trends handler: MarketsController.get_trends
   (app/controllers/markets_controller.py) behind its route
   (app/routes/markets.py).  The handler is a coroutine: it runs without
   interruption up to each await, so a request takes three steps, and the
   steps of concurrent requests interleave. *)

\* cache_key of get_trends
TRENDS_KEY == "markets:trends"

\* "cache_ttl": 3600 in _metadata
METADATA_TTL == 3600

\* the requests in flight at the same time
Callers == { "r1", "r2" }

\* the two upstream sources
Sources == { "news", "tweets" }

\* what an upstream call came to: the items of the answer, or an error
\* (timeout, HTTP error status, malformed body)
Answer(items) == [ok |-> TRUE, items |-> items]

Failed == [ok |-> FALSE, items |-> << >>]

\* what the CryptoNews API can answer to fetch_trending_news
UpstreamNews == { Answer(<< NewsItem(P_rally, DateValue("iso", 2, TRUE)) >>) }

\* what the GAME X API can answer to fetch_latest_tweets: one tweet with its
\* date, and two tweets of which the second has no created_at
UpstreamTweets ==
  { Answer(<< Tweet(P_rally, DateValue("iso", 1, TRUE)) >>),
    Answer(<< Tweet(P_rally, DateValue("iso", 1, TRUE)), Tweet(P_rally, Unparsable) >>) }

\* the list a service returns: the items built from the answer, and [] from
\* its except clauses
Fetched(outcome) == IF outcome.ok THEN outcome.items ELSE << >>

\* what the client receives: status code and body
Reply(code, content) == [status |-> code, body |-> content]

NoReply == Reply(0, PyNone)

\* the route's except clause: HTTPException(status_code=500, detail=str(e))
HTTP_500(detail) == Reply(500, PyValue("str", << detail >>))

\* the truth value of "if cached:" never holding
Truthy_Never(value) == FALSE

\* the truth value Python gives a value: None and empty containers are false
Truthy(value) == value.type # "NoneType" /\ DOMAIN value.v # {}

\* the dict merge_by_category returned
MergedDict(m) == [k \in DOMAIN m \ {"status"} |-> m[k]]

\* an empty dict, the default of merged.get("trends", {})
EmptyDict == << >>

\* merged.get("trends", {}).get("items", [])
TrendsItems(m) == Get(Get(MergedDict(m), "trends", EmptyDict), "items", << >>)

Metadata(total, ts, ttl) == [total_items |-> total, timestamp |-> ts, cache_ttl |-> ttl]

\* result = {**merged, "_metadata": {...}}
Envelope(m, ts) ==
  LET d == MergedDict(m)
  IN  PyValue("dict",
        [k \in DOMAIN d \cup {"_metadata"} |->
           IF k = "_metadata" THEN Metadata(Len(TrendsItems(m)), ts, METADATA_TTL)
           ELSE d[k]])

\* the messages of save_signal_items.send(items) and
\* save_category_feed.send(category, items)
Sends(c, items) ==
  << [actor |-> "save_signal_items", items |-> items],
     [actor |-> "save_category_feed", category |-> c, items |-> items] >>

\* the locals of one request and what it did:
\*   lookup   what redis_client.get returned ("cached")
\*   answered Redis answered the lookup
\*   window   an unexpired entry was in Redis at the lookup and Redis answered
\*   news, tw the lists the two services returned
\*   failed   the sources whose call failed
\*   fetched  the sources the request called
\*   result   the envelope the request assembled (PyNone: none)
\*   wrote    its redis_client.set reached Redis
Request(at, lookup, answered, window, news, tw, failed, fetched, result, wrote, response) ==
  [pc |-> at, lookup |-> lookup, answered |-> answered, window |-> window,
   news |-> news, tw |-> tw,
   failed |-> failed, fetched |-> fetched, result |-> result, wrote |-> wrote,
   response |-> response]

NoRequest == Request("idle", PyNone, FALSE, FALSE, << >>, << >>, {}, {}, PyNone, FALSE, NoReply)

\* lines 26-35: the lookup, the return of a hit, and on a miss the call of
\* fetch_trending_news up to its await
GetTrendsLookup(r, up) ==
  LET got == Got(TRENDS_KEY, up)
      window == up /\ Live(TRENDS_KEY)
  IN  /\ hreq[r].pc \in {"idle", "done"}
      /\ lastGet' = got
      /\ hreq' = [hreq EXCEPT ![r] =
           IF Truthy(got.ret)
             THEN Request("done", got.ret, up, window, << >>, << >>, {}, {}, PyNone,
                          FALSE, Reply(200, got.ret))
             ELSE Request("news", got.ret, up, window, << >>, << >>, {}, {"news"},
                          PyNone, FALSE, NoReply)]
      /\ hpath' = [hpath EXCEPT ![r] = "trends"]
      /\ UNCHANGED << cache, enqueued, nonHandlerVars >>

\* lines 35-36: fetch_trending_news returns, fetch_latest_tweets is called
\* and runs up to its await
GetTrendsNews(r, outcome) ==
  /\ hreq[r].pc = "news"
  /\ hpath[r] = "trends"
  /\ hreq' = [hreq EXCEPT ![r].pc = "tweets",
                          ![r].news = Fetched(outcome),
                          ![r].failed = IF outcome.ok THEN @ ELSE @ \cup {"news"},
                          ![r].fetched = @ \cup {"tweets"}]
  /\ UNCHANGED << cache, lastGet, enqueued, hpath, nonHandlerVars >>

\* lines 36-61: fetch_latest_tweets returns; merge, envelope, cache write
\* (up: Redis answers), the sends when items is not empty, and the return; an
\* exception of the merge leaves through the route's except clause
GetTrendsFinish(r, outcome) ==
  /\ hreq[r].pc = "tweets"
  /\ hpath[r] = "trends"
  /\ \E m \in { merge_by_category("trends", hreq[r].news, Fetched(outcome)) } :
     \E result \in { Envelope(m, clock) }, up \in BOOLEAN :
       LET tw == Fetched(outcome)
           failed == IF outcome.ok THEN hreq[r].failed
                     ELSE hreq[r].failed \cup {"tweets"}
           items == TrendsItems(m)
       IN  IF m.status = "raised"
             THEN /\ hreq' = [hreq EXCEPT ![r].pc = "done", ![r].tw = tw,
                                          ![r].failed = failed,
                                          ![r].response = HTTP_500("TypeError")]
                  /\ UNCHANGED << cache, enqueued >>
             ELSE /\ cache' = Stored(TRENDS_KEY, result, 0, up)
                  /\ enqueued' = IF items # << >>
                                   THEN enqueued \o Sends("trends", items)
                                   ELSE enqueued
                  /\ hreq' = [hreq EXCEPT ![r].pc = "done", ![r].tw = tw,
                                          ![r].failed = failed,
                                          ![r].result = result,
                                          ![r].wrote = up,
                                          ![r].response = Reply(200, result)]
  /\ UNCHANGED << lastGet, hpath, nonHandlerVars >>

\* The other four handlers: get_liquidity, get_agents, get_macro_events and
\* get_proof_of_work.

\* the paid endpoints /markets/{name}, named after the five categories
Endpoints == { "trends", "liquidity", "agents", "macro_events", "proof_of_work" }

\* the three handlers built like get_liquidity
MergingEndpoints == { "liquidity", "agents", "macro_events" }

\* cache_key of each handler
CacheKeyOf(e) ==
  [trends |-> TRENDS_KEY, liquidity |-> "markets:liquidity", agents |-> "markets:agents",
   macro_events |-> "markets:macro_events", proof_of_work |-> "markets:proof_of_work"][e]

EndpointKeys == { CacheKeyOf(e) : e \in Endpoints }

\* the category argument each handler gives merge_by_category
MergeArgument(e) == [liquidity |-> "defi", agents |-> "ai", macro_events |-> "macro"][e]

\* the key of the envelope each handler puts its items under, also the
\* category it gives save_category_feed
EnvelopeKey(e) ==
  [liquidity |-> "liquidity", agents |-> "ai", macro_events |-> "macro",
   proof_of_work |-> "mining"][e]

\* {"items": [...]}
ItemsDict(items) == [items |-> items]

\* merged.get(name, default)
MergedGet(m, name, default) == Get(MergedDict(m), name, default)

\* result = {key: inner, "_metadata": {...}}
KeyedEnvelope(key, inner, total, ts) ==
  PyValue("dict",
    [k \in {key, "_metadata"} |->
       IF k = "_metadata" THEN Metadata(total, ts, METADATA_TTL) ELSE inner])

\* the lookup of the four handlers, the return of a hit, and on a miss the
\* call of fetch_latest_news up to its await
GetCategoryLookup(r, e, up) ==
  LET got == Got(CacheKeyOf(e), up)
      window == up /\ Live(CacheKeyOf(e))
  IN  /\ hreq[r].pc \in {"idle", "done"}
      /\ e \in Endpoints \ {"trends"}
      /\ lastGet' = got
      /\ hreq' = [hreq EXCEPT ![r] =
           IF Truthy(got.ret)
             THEN Request("done", got.ret, up, window, << >>, << >>, {}, {}, PyNone,
                          FALSE, Reply(200, got.ret))
             ELSE Request("news", got.ret, up, window, << >>, << >>, {}, {"news"},
                          PyNone, FALSE, NoReply)]
      /\ hpath' = [hpath EXCEPT ![r] = e]
      /\ UNCHANGED << cache, enqueued, nonHandlerVars >>

\* fetch_latest_news returns, search_tweets_by_keywords is called and runs up
\* to its await
GetCategoryNews(r, outcome) ==
  /\ hreq[r].pc = "news"
  /\ hpath[r] \in Endpoints \ {"trends"}
  /\ hreq' = [hreq EXCEPT ![r].pc = "tweets",
                          ![r].news = Fetched(outcome),
                          ![r].failed = IF outcome.ok THEN @ ELSE @ \cup {"news"},
                          ![r].fetched = @ \cup {"tweets"}]
  /\ UNCHANGED << cache, lastGet, enqueued, hpath, nonHandlerVars >>

\* get_liquidity, get_agents, get_macro_events from the return of
\* search_tweets_by_keywords: merge, envelope, cache write, the sends when
\* items is not empty, and the return
GetCategoryFinish(r, outcome) ==
  /\ hreq[r].pc = "tweets"
  /\ hpath[r] \in MergingEndpoints
  /\ \E m \in { merge_by_category(MergeArgument(hpath[r]), hreq[r].news, Fetched(outcome)) } :
     \E up \in BOOLEAN :
       LET e == hpath[r]
           tw == Fetched(outcome)
           failed == IF outcome.ok THEN hreq[r].failed
                     ELSE hreq[r].failed \cup {"tweets"}
           inner == MergedGet(m, MergeArgument(e), ItemsDict(<< >>))
           total == Len(Get(MergedGet(m, MergeArgument(e), EmptyDict), "items", << >>))
           result == KeyedEnvelope(EnvelopeKey(e), inner, total, clock)
           items == inner.items
       IN  IF m.status = "raised"
             THEN /\ hreq' = [hreq EXCEPT ![r].pc = "done", ![r].tw = tw,
                                          ![r].failed = failed,
                                          ![r].response = HTTP_500("TypeError")]
                  /\ UNCHANGED << cache, enqueued >>
             ELSE /\ cache' = Stored(CacheKeyOf(e), result, 0, up)
                  /\ enqueued' = IF items # << >>
                                   THEN enqueued \o Sends(EnvelopeKey(e), items)
                                   ELSE enqueued
                  /\ hreq' = [hreq EXCEPT ![r].pc = "done", ![r].tw = tw,
                                          ![r].failed = failed,
                                          ![r].result = result,
                                          ![r].wrote = up,
                                          ![r].response = Reply(200, result)]
  /\ UNCHANGED << lastGet, hpath, nonHandlerVars >>

\* get_proof_of_work writing the envelope to the cache before the loop over
\* the items
GetProofOfWorkFinish_CachesFirst(r, outcome) ==
  /\ hreq[r].pc = "tweets"
  /\ hpath[r] = "proof_of_work"
  /\ \E up \in BOOLEAN :
       LET tw == Fetched(outcome)
           failed == IF outcome.ok THEN hreq[r].failed
                     ELSE hreq[r].failed \cup {"tweets"}
           result == KeyedEnvelope(EnvelopeKey("proof_of_work"), ItemsDict(<< >>), 0, clock)
       IN  /\ cache' = Stored(CacheKeyOf("proof_of_work"), result, 0, up)
           /\ IF hreq[r].news \o tw # << >>
                THEN hreq' = [hreq EXCEPT ![r].pc = "done", ![r].tw = tw,
                                          ![r].failed = failed,
                                          ![r].wrote = up,
                                          ![r].response = HTTP_500("AttributeError")]
                ELSE hreq' = [hreq EXCEPT ![r].pc = "done", ![r].tw = tw,
                                          ![r].failed = failed,
                                          ![r].result = result,
                                          ![r].wrote = up,
                                          ![r].response = Reply(200, result)]
  /\ UNCHANGED << lastGet, enqueued, hpath, nonHandlerVars >>

\* get_proof_of_work from the return of search_tweets_by_keywords: the loop
\* calls DataMergerAgent._transform_news_to_signal or
\* _transform_tweet_to_signal on the first item, neither of which
\* DataMergerAgent has (AttributeError); with no item at all the envelope is
\* built with an empty list
GetProofOfWorkFinish(r, outcome) ==
  /\ hreq[r].pc = "tweets"
  /\ hpath[r] = "proof_of_work"
  /\ \E up \in BOOLEAN :
       LET tw == Fetched(outcome)
           failed == IF outcome.ok THEN hreq[r].failed
                     ELSE hreq[r].failed \cup {"tweets"}
           result == KeyedEnvelope(EnvelopeKey("proof_of_work"), ItemsDict(<< >>), 0, clock)
       IN  IF hreq[r].news \o tw # << >>
             THEN /\ hreq' = [hreq EXCEPT ![r].pc = "done", ![r].tw = tw,
                                          ![r].failed = failed,
                                          ![r].response = HTTP_500("AttributeError")]
                  /\ UNCHANGED cache
             ELSE /\ cache' = Stored(CacheKeyOf("proof_of_work"), result, 0, up)
                  /\ hreq' = [hreq EXCEPT ![r].pc = "done", ![r].tw = tw,
                                          ![r].failed = failed,
                                          ![r].result = result,
                                          ![r].wrote = up,
                                          ![r].response = Reply(200, result)]
  /\ UNCHANGED << lastGet, enqueued, hpath, nonHandlerVars >>

----------------------------------------------------------------------------
(* A whole request: the payment gate around a handler.  call_next of the
   gate runs the route, the route runs the handler of the controller, and the
   status of the handler's response is what call_next returns. *)

\* the path each route of app/routes/markets.py is mounted at
RouteOf(e) ==
  [trends |-> <<"/markets/trends">>, liquidity |-> <<"/markets/liquidity">>,
   agents |-> <<"/markets/agents">>, macro_events |-> <<"/markets/macro_events">>,
   proof_of_work |-> <<"/markets/proof_of_work">>][e]

EndpointOfPath(p) == CHOOSE e \in Endpoints : RouteOf(e) = p

\* the two requests followed from the gate into their handlers
Served == { 1, 2 }

\* the handler invocation that belongs to a request
CallerOf(r) == IF r = 1 THEN "r1" ELSE "r2"

\* the requests drawn from: GET /markets/proof_of_work with one of two
\* payment hashes
ServedRequests == { [path |-> RouteOf("proof_of_work"), hash |-> h] : h \in {"h1", "h2"} }

\* what the upstream sources answer to these requests
ServedNews == { Answer(<< NewsItem(P_miner, DateValue("iso", 2, TRUE)) >>), Failed }

ServedTweets == { Answer(<< Tweet(P_dex, DateValue("iso", 1, TRUE)) >>), Failed }

\* the route calls the handler: its cache lookup
RouteCall(r, up) ==
  /\ pc[r] = "handler"
  /\ hreq[CallerOf(r)].pc = "idle"
  /\ GetCategoryLookup(CallerOf(r), EndpointOfPath(req[r].path), up)

\* the handler has returned or raised, the route turns an exception into
\* HTTPException(500), and call_next returns that response to the gate
RouteReturn(r) ==
  /\ hreq[CallerOf(r)].pc = "done"
  /\ HandlerReturn(r, hreq[CallerOf(r)].response.status)

----------------------------------------------------------------------------
(* Startup: startup_event (app/main.py) and startup_checks
   (app/core/startup.py).  startup_event first tests "not init_db()" without
   awaiting the call: the coroutine object is true, so that test never exits
   and the database is checked by startup_checks alone. *)

\* what is reachable when the process boots
Dependencies == [db : BOOLEAN, cache : BOOLEAN, news : BOOLEAN, social : BOOLEAN]

AllUp == [db |-> TRUE, cache |-> TRUE, news |-> TRUE, social |-> TRUE]

\* the six checks of startup_checks, in order: init_db() (SELECT 1),
\* Base.metadata.create_all, redis_client.connect() (ping),
\* crypto_news_service.initialize() (GET /category),
\* game_x_service.initialize() (the SDK worker is set up),
\* payment_service.initialize(), cleanup_worker.start(); each is False when
\* its call raised or answered with an error
StartupStatus(d, tables, payment, worker) ==
  [db |-> d.db, tables |-> tables, redis |-> d.cache, cryptonews |-> d.news,
   gamex |-> d.social, payment |-> payment, cleanup |-> worker]

\* all_checks_passed holding only what the last check came to
all_checks_passed_LastCheck(st) == st.cleanup

\* all_checks_passed: set to False by every failed check, never back to True
all_checks_passed(st) == \A c \in DOMAIN st : st[c]

\* startup_event up to the return of startup_checks: every check is run,
\* whatever the checks before it came to
StartupChecks(tables, payment, worker) ==
  /\ phase = "starting"
  /\ deps.db \/ ~tables
  /\ checks' = StartupStatus(deps, tables, payment, worker)
  /\ phase' = "checked"
  /\ UNCHANGED << deps, nonStartupVars >>

\* the end of startup_event: sys.exit(1) when startup_checks returned False
StartupEvent ==
  /\ phase = "checked"
  /\ phase' = IF all_checks_passed(checks) THEN "serving" ELSE "exited"
  /\ UNCHANGED << deps, checks, nonStartupVars >>

----------------------------------------------------------------------------
(* The news source: CryptoNewsService (app/services/cryptonews.py).  One
   instance serves the whole process; its key is read from the settings when
   the instance is built and its two flags are set lazily. *)

\* len(api_key) below which validate_api_key calls the key invalid
MIN_KEY_LENGTH == 10

\* the keys a deployment may be configured with, by length: none, one that is
\* too short, one of the length the upstream hands out
KeyLengths == { 0, MIN_KEY_LENGTH - 1, MIN_KEY_LENGTH + 22 }

\* what a GET to the upstream can come to: 200 with a data list, 200 with an
\* "error" member, 401, another error status, no answer at all
Responses == { "ok", "error_body", "unauthorized", "server_error", "unreachable" }

\* the items of a 200 answer, as the upstream names their fields
UpstreamData ==
  { << >>,
    << [title |-> "btc rally", text |-> "bitcoin up", news_url |-> "u1",
        date |-> "d1", sentiment |-> "positive"] >>,
    << [title |-> "dex volume", news_url |-> "u2"],
       [title |-> "fed rates", text |-> "rates held", date |-> "d3"] >> }

\* the dict a fetch method builds from one item of the answer
FetchedItem(it) ==
  [source |-> "cryptonews",
   title |-> Get(it, "title", ""),
   content |-> Get(it, "text", ""),
   url |-> Get(it, "news_url", ""),
   published_at |-> Get(it, "date", ""),
   sentiment |-> Get(it, "sentiment", "neutral")]

\* news_items of a fetch method: one dict per item, in the order of the answer
NewsItems(data) == [i \in DOMAIN data |-> FetchedItem(data[i])]

\* validate_api_key: what it returns and the flags it leaves behind
validate_api_key(key, validated, invalid) ==
  IF validated THEN [ret |-> TRUE, validated |-> validated, invalid |-> invalid]
  ELSE IF invalid THEN [ret |-> FALSE, validated |-> validated, invalid |-> invalid]
  ELSE IF key = 0 THEN [ret |-> FALSE, validated |-> validated, invalid |-> TRUE]
  ELSE IF key < MIN_KEY_LENGTH
    THEN [ret |-> FALSE, validated |-> validated, invalid |-> TRUE]
  ELSE [ret |-> TRUE, validated |-> TRUE, invalid |-> invalid]

\* the three fetch methods
FetchMethods == { "fetch_trending_news", "fetch_latest_news", "fetch_ticker_news" }

NoFetch ==
  [method |-> "none", contacted |-> FALSE, response |-> "none",
   returned |-> << >>, after401 |-> FALSE]

\* what one call of a fetch method met: the upstream was contacted or not,
\* what it answered, the list the call returned, and whether an earlier fetch
\* had already received a 401
FetchRecord(m, contacted, resp, ret) ==
  [method |-> m, contacted |-> contacted, response |-> resp,
   returned |-> ret, after401 |-> got401]

\* initialize, called once by startup_checks: builds the client, validates
\* the key and, for a key that passes, sends one test request
Initialize(resp) ==
  /\ ~ client
  /\ client' = TRUE
  /\ \E v \in { validate_api_key(api_key, api_key_validated, api_key_invalid) } :
       /\ api_key_validated' = v.validated
       /\ api_key_invalid' = (v.invalid \/ (v.ret /\ resp = "unauthorized"))
  /\ UNCHANGED << api_key, fetches, got401, last_fetch, nonNewsVars >>

\* fetch_trending_news, fetch_latest_news, fetch_ticker_news: the three have
\* the same body up to the URL and the parameters of the request.  Every
\* exception is caught inside the method, so the retry decorator of the first
\* two never sees one.  With self.client still None the request raises
\* AttributeError before anything is sent.
Fetch(m, resp, data) ==
  /\ fetches < MaxFetches
  /\ fetches' = fetches + 1
  /\ \E v \in { validate_api_key(api_key, api_key_validated, api_key_invalid) } :
       /\ api_key_validated' = v.validated
       /\ IF ~ v.ret
            THEN /\ last_fetch' = FetchRecord(m, FALSE, "none", << >>)
                 /\ api_key_invalid' = v.invalid
                 /\ got401' = got401
          ELSE IF ~ client
            THEN /\ last_fetch' = FetchRecord(m, FALSE, "none", << >>)
                 /\ api_key_invalid' = v.invalid
                 /\ got401' = got401
          ELSE /\ last_fetch' = FetchRecord(m, TRUE, resp,
                                  IF resp = "ok" THEN NewsItems(data) ELSE << >>)
               /\ api_key_invalid' = (v.invalid \/ resp = "unauthorized")
               /\ got401' = (got401 \/ resp = "unauthorized")
  /\ UNCHANGED << api_key, client, nonNewsVars >>

----------------------------------------------------------------------------
(* Specifications *)

\* no request has arrived at the payment gate
IdleGate ==
  /\ pc = [r \in Reqs |-> "idle"]
  /\ req = [r \in Reqs |-> [path |-> <<>>, hash |-> NoHash]]
  /\ events = [r \in Reqs |-> <<>>]
  /\ handlerStatus = [r \in Reqs |-> 0]
  /\ status = [r \in Reqs |-> 0]
  /\ body = [r \in Reqs |-> "none"]
  /\ verifyAnswer = [r \in Reqs |-> "none"]
  /\ settleAnswer = [r \in Reqs |-> "none"]

InitPay ==
  /\ IdleGate
  /\ store = {}
  /\ nextId = 1
  /\ now = 0

IdleCleanup == cleanupLog = NoCleanupLog

\* an empty cache
IdleCache ==
  /\ cache = [k \in CacheKeys |-> NoEntry]
  /\ lastGet = NoGet

\* no request under way, nothing sent to the broker
IdleHandler ==
  /\ hreq = [r \in Callers |-> NoRequest]
  /\ enqueued = << >>
  /\ hpath = [r \in Callers |-> "none"]

\* the process came up with everything reachable
IdleStartup ==
  /\ deps = AllUp
  /\ checks = StartupStatus(AllUp, TRUE, TRUE, TRUE)
  /\ phase = "serving"

IdleDate ==
  /\ date_value = Unparsable
  /\ date_result = NoDate

\* the service as the process builds it before startup, with a key that
\* validate_api_key accepts
IdleNews ==
  /\ api_key = MIN_KEY_LENGTH + 22
  /\ api_key_validated = FALSE
  /\ api_key_invalid = FALSE
  /\ client = FALSE
  /\ fetches = 0
  /\ got401 = FALSE
  /\ last_fetch = NoFetch

IdleCat ==
  /\ item = EmptyItem
  /\ category = NoCategory
  /\ scores = ZeroScores
  /\ cat_items = << >>
  /\ categorized = NoBuckets

IdleMerge ==
  /\ news_items = << >>
  /\ tweets = << >>
  /\ merged = NoMerge
  /\ merged_data = NoMergedData

IdleSort ==
  /\ unsorted = << >>
  /\ descending = TRUE
  /\ sorted_items = NoSort

\* no delivery of save_category_feed in progress
IdleFeedWorkers ==
  /\ fpc = [w \in Workers |-> "idle"]
  /\ fmsg = [w \in Workers |-> NoFeedMessage]
  /\ fplan = [w \in Workers |-> NoPlan]
  /\ fdeliveries = 0
  /\ fcommitted = 0
  /\ fwritten = << >>

IdleFeed ==
  /\ category_feeds = { }
  /\ feedNext = 1
  /\ clock = 0
  /\ IdleFeedWorkers

\* no delivery of save_signal_items in progress
IdleSignalWorkers ==
  /\ spc = [w \in Workers |-> "idle"]
  /\ smsg = [w \in Workers |-> << >>]
  /\ si = [w \in Workers |-> 1]
  /\ sadds = [w \in Workers |-> << >>]
  /\ deliveries = 0
  /\ sdone = [b \in SignalBatches |-> 0]
  /\ scommitted = [b \in SignalBatches |-> 0]
  /\ stransient = [b \in SignalBatches |-> 0]
  /\ sretried = [b \in SignalBatches |-> 0]

IdleSignal ==
  /\ signal_items = { }
  /\ uuidNext = 1
  /\ IdleSignalWorkers

Init ==
  /\ InitPay
  /\ IdleCache
  /\ IdleHandler
  /\ IdleStartup
  /\ IdleDate
  /\ IdleNews
  /\ IdleCleanup
  /\ IdleFeed
  /\ IdleSignal
  /\ IdleCat
  /\ IdleMerge
  /\ IdleSort

Next ==
  \/ \E r \in Reqs, q \in Requests : Dispatch(r, q.path, q.hash)
  \/ \E r \in Reqs, o \in FacilitatorOutcomes, dbOk \in BOOLEAN : VerifyPayment(r, o, dbOk)
  \/ \E r \in Reqs : CallNext(r)
  \/ \E r \in Reqs, st \in {200, 404, 500} : HandlerReturn(r, st)
  \/ \E r \in Reqs, o \in FacilitatorOutcomes, dbOk \in BOOLEAN : SettlePayment(r, o, dbOk)
  \/ \E dbOk \in BOOLEAN : CleanupOldData(dbOk) /\ UNCHANGED cleanupLog
  \/ Tick

Spec == Init /\ [][Next]_vars

InitCat ==
  /\ InitPay
  /\ IdleCache
  /\ IdleHandler
  /\ IdleStartup
  /\ IdleDate
  /\ IdleNews
  /\ IdleCleanup
  /\ IdleFeed
  /\ IdleSignal
  /\ item \in Items
  /\ category = NoCategory
  /\ scores = ZeroScores
  /\ cat_items = << >>
  /\ categorized = NoBuckets
  /\ IdleMerge
  /\ IdleSort

NextCat == Categorize

SpecCat == InitCat /\ [][NextCat]_vars

\* categorize_items on short lists of articles
Headlines == {P_rally, P_dex, P_agent, P_sec, P_miner, P_plain}

Headlined(i, ti) ==
  [source |-> "cryptonews", url |-> << "n", i >>, title |-> ti, content |-> P_empty]

InitBuckets ==
  /\ InitPay
  /\ IdleCache
  /\ IdleHandler
  /\ IdleStartup
  /\ IdleDate
  /\ IdleNews
  /\ IdleCleanup
  /\ IdleFeed
  /\ IdleSignal
  /\ item = EmptyItem
  /\ category = NoCategory
  /\ scores = ZeroScores
  /\ \E n \in 0..MaxBucketItems :
       \E titles \in [1..n -> Headlines] :
         cat_items = [i \in 1..n |-> Headlined(i, titles[i])]
  /\ categorized = NoBuckets
  /\ IdleMerge
  /\ IdleSort

NextBuckets == CategorizeItems

SpecBuckets == InitBuckets /\ [][NextBuckets]_vars

\* the merger applied to every pair of feeds of the model
InitMerge ==
  /\ InitPay
  /\ IdleCache
  /\ IdleHandler
  /\ IdleStartup
  /\ IdleDate
  /\ IdleNews
  /\ IdleCleanup
  /\ IdleFeed
  /\ IdleSignal
  /\ IdleCat
  /\ IdleSort
  /\ news_items \in ListsOf(NewsPool, MaxItems)
  /\ tweets \in ListsOf(TweetPool, MaxItems)
  /\ merged = NoMerge
  /\ merged_data = NoMergedData

NextMerge == \E c \in Categories : MergeByCategory(c)

SpecMerge == InitMerge /\ [][NextMerge]_vars

\* sort_by_date applied to every list of the model, in both directions
InitSort ==
  /\ InitPay
  /\ IdleCache
  /\ IdleHandler
  /\ IdleStartup
  /\ IdleDate
  /\ IdleNews
  /\ IdleCleanup
  /\ IdleFeed
  /\ IdleSignal
  /\ IdleCat
  /\ IdleMerge
  /\ unsorted \in { l \in ListsOf(SortPool, MaxSort) : DistinctUrls(l) }
  /\ descending \in BOOLEAN
  /\ sorted_items = NoSort

NextSort == SortByDate

SpecSort == InitSort /\ [][NextSort]_vars

\* normalize_date called on one value of each kind
InitDate ==
  /\ InitPay
  /\ IdleCache
  /\ IdleHandler
  /\ IdleStartup
  /\ IdleCleanup
  /\ IdleFeed
  /\ IdleSignal
  /\ IdleCat
  /\ IdleMerge
  /\ IdleSort
  /\ IdleNews
  /\ date_value \in DateValues
  /\ date_result = NoDate

NextDate == NormalizeDate

SpecDate == InitDate /\ [][NextDate]_vars

\* the news service from its construction on, for every kind of key
InitNews ==
  /\ InitPay
  /\ IdleCache
  /\ IdleHandler
  /\ IdleStartup
  /\ IdleCleanup
  /\ IdleFeed
  /\ IdleSignal
  /\ IdleCat
  /\ IdleMerge
  /\ IdleSort
  /\ IdleDate
  /\ api_key \in KeyLengths
  /\ api_key_validated = FALSE
  /\ api_key_invalid = FALSE
  /\ client = FALSE
  /\ fetches = 0
  /\ got401 = FALSE
  /\ last_fetch = NoFetch

NextNews ==
  \/ \E resp \in Responses : Initialize(resp)
  \/ \E m \in FetchMethods, resp \in Responses, data \in UpstreamData :
       Fetch(m, resp, data)

SpecNews == InitNews /\ [][NextNews]_vars

\* merge_feeds and merge_by_category called on feeds short and long enough
\* for every truncation to cut
InitBulk ==
  /\ InitPay
  /\ IdleCache
  /\ IdleHandler
  /\ IdleStartup
  /\ IdleDate
  /\ IdleNews
  /\ IdleCleanup
  /\ IdleFeed
  /\ IdleSignal
  /\ IdleCat
  /\ IdleSort
  /\ news_items \in { News(n) : n \in {0, 1, 2, MidFeed, LongFeed} }
  /\ tweets \in { Posts(n) : n \in {0, 1, 3, MidFeed} }
  /\ merged = NoMerge
  /\ merged_data = NoMergedData

NextBulk ==
  \/ MergeFeeds
  \/ \E c \in Categories : MergeByCategory(c)

SpecBulk == InitBulk /\ [][NextBulk]_vars

\* the broker delivering signal batches to the workers
InitSignal ==
  /\ InitPay
  /\ IdleCache
  /\ IdleHandler
  /\ IdleStartup
  /\ IdleDate
  /\ IdleNews
  /\ IdleCleanup
  /\ IdleFeed
  /\ IdleCat
  /\ IdleMerge
  /\ IdleSort
  /\ IdleSignal

NextSignal ==
  \/ \E w \in Workers, b \in SignalBatches : SaveSignalItemsStart(w, b)
  \/ \E w \in Workers : SaveSignalItemsItem(w)
  \/ \E w \in Workers, dbOk \in BOOLEAN : SaveSignalItemsCommit(w, dbOk)

SpecSignal == InitSignal /\ [][NextSignal]_vars

\* the broker delivering snapshot writes to the workers while time passes
InitFeed ==
  /\ InitPay
  /\ IdleCache
  /\ IdleHandler
  /\ IdleStartup
  /\ IdleDate
  /\ IdleNews
  /\ IdleCleanup
  /\ IdleCat
  /\ IdleMerge
  /\ IdleSort
  /\ IdleSignal
  /\ IdleFeed

NextFeed ==
  \/ \E w \in Workers, m \in FeedMessages : SaveCategoryFeedQuery(w, m)
  \/ \E w \in Workers, dbOk \in BOOLEAN : SaveCategoryFeedCommit(w, dbOk)
  \/ \E d \in {ShortStep, SNAPSHOT_WINDOW} : TickClock(d)

SpecFeed == InitFeed /\ [][NextFeed]_vars

\* snapshot writes of one category arriving less than an hour apart
HistoryStep == MaxClock \div 2

NextHistory ==
  \/ \E w \in Workers, m \in { x \in FeedMessages : x.category = "trends" } :
       SaveCategoryFeedQuery(w, m)
  \/ \E w \in Workers, dbOk \in BOOLEAN : SaveCategoryFeedCommit(w, dbOk)
  \/ TickClock(HistoryStep)

SpecHistory == InitFeed /\ [][NextHistory]_vars

\* the rows the cleanup jobs meet: one just before the cutoff, one at the
\* cutoff and one just after it, in each table
StoredSignal(id, ts) == SignalItem(SignalPayload(<< id >>, "BTC up", ts))

CleanupSignals ==
  { StoredSignal("a", CleanupHour * SECONDS_PER_HOUR - RETENTION_HOURS * SECONDS_PER_HOUR - 1),
    StoredSignal("b", CleanupHour * SECONDS_PER_HOUR - RETENTION_HOURS * SECONDS_PER_HOUR),
    StoredSignal("c", CleanupHour * SECONDS_PER_HOUR - RETENTION_HOURS * SECONDS_PER_HOUR + 1) }

StoredFeed(n, ts) == CategoryFeed(uuid4(n), "trends", << "x" >>, ts, ts)

CleanupFeeds ==
  { StoredFeed(1, CleanupHour * SECONDS_PER_HOUR - RETENTION_HOURS * SECONDS_PER_HOUR - 1),
    StoredFeed(2, CleanupHour * SECONDS_PER_HOUR - RETENTION_HOURS * SECONDS_PER_HOUR),
    StoredFeed(3, CleanupHour * SECONDS_PER_HOUR - RETENTION_HOURS * SECONDS_PER_HOUR + 1) }

CleanupPayments ==
  { PaymentTransaction(1, "h1", PAID_ENDPOINTS[1], CleanupHour - RETENTION_HOURS - 1, 1),
    PaymentTransaction(2, "h2", PAID_ENDPOINTS[1], CleanupHour - RETENTION_HOURS, 1),
    PaymentTransaction(3, "h3", PAID_ENDPOINTS[1], CleanupHour - RETENTION_HOURS + 1, 1) }

\* the cleanup jobs running, CleanupHour hours after the start, on tables
\* that hold any of these rows
InitCleanup ==
  /\ IdleGate
  /\ nextId = Cardinality(CleanupPayments) + 1
  /\ now = CleanupHour
  /\ clock = CleanupHour * SECONDS_PER_HOUR
  /\ store \in SUBSET CleanupPayments
  /\ signal_items \in SUBSET CleanupSignals
  /\ category_feeds \in SUBSET CleanupFeeds
  /\ uuidNext = 1
  /\ feedNext = Cardinality(CleanupFeeds) + 1
  /\ cleanupLog = NoCleanupLog
  /\ IdleCache
  /\ IdleHandler
  /\ IdleStartup
  /\ IdleDate
  /\ IdleNews
  /\ IdleSignalWorkers
  /\ IdleFeedWorkers
  /\ IdleCat
  /\ IdleMerge
  /\ IdleSort

NextCleanup ==
  \/ \E dbOk \in BOOLEAN : CleanupOldDataRun(dbOk)
  \/ \E dbOk \in BOOLEAN : CleanupOldSignalsRun(dbOk)

SpecCleanup == InitCleanup /\ [][NextCleanup]_vars

\* the cache client called with every key, value and ttl while time passes
InitCache ==
  /\ InitPay
  /\ IdleCache
  /\ IdleHandler
  /\ IdleStartup
  /\ IdleDate
  /\ IdleNews
  /\ IdleCleanup
  /\ IdleCat
  /\ IdleMerge
  /\ IdleSort
  /\ IdleSignal
  /\ IdleFeed

NextCache ==
  \/ \E k \in CacheKeys, v \in CacheValues, ttl \in {0, ShortStep}, up \in BOOLEAN :
       CacheSet(k, v, ttl, up)
  \/ \E k \in CacheKeys, up \in BOOLEAN : CacheGet(k, up)
  \/ \E d \in {ShortStep, REDIS_TTL} : TickClock(d)

SpecCache == InitCache /\ [][NextCache]_vars

\* two clients calling /markets/trends while time passes
InitHandler ==
  /\ InitPay
  /\ IdleCache
  /\ IdleHandler
  /\ IdleStartup
  /\ IdleDate
  /\ IdleNews
  /\ IdleCleanup
  /\ IdleCat
  /\ IdleMerge
  /\ IdleSort
  /\ IdleSignal
  /\ IdleFeed

NextHandler ==
  \/ \E r \in Callers, up \in BOOLEAN : GetTrendsLookup(r, up)
  \/ \E r \in Callers, outcome \in UpstreamNews \cup {Failed} : GetTrendsNews(r, outcome)
  \/ \E r \in Callers, outcome \in UpstreamTweets \cup {Failed} :
       GetTrendsFinish(r, outcome)
  \/ \E d \in {REDIS_TTL \div 2, REDIS_TTL} : TickClock(d)

SpecHandler == InitHandler /\ [][NextHandler]_vars

\* one caller asking each of the five endpoints, with upstream articles of
\* several categories
EndpointNews ==
  { Answer(<< NewsItem(p, DateValue("iso", 2, TRUE)) >>) : p \in {P_rally, P_dex, P_miner} }

EndpointTweets == { Answer(<< Tweet(p, DateValue("iso", 1, TRUE)) >>) : p \in {P_rally, P_dex} }

InitEndpoints ==
  /\ InitPay
  /\ IdleStartup
  /\ IdleDate
  /\ IdleNews
  /\ IdleCleanup
  /\ IdleCat
  /\ IdleMerge
  /\ IdleSort
  /\ IdleSignal
  /\ IdleFeed
  /\ IdleHandler
  /\ cache = [k \in EndpointKeys |-> NoEntry]
  /\ lastGet = NoGet

NextEndpoints ==
  \/ \E up \in BOOLEAN : GetTrendsLookup("r1", up)
  \/ \E outcome \in EndpointNews \cup {Failed} : GetTrendsNews("r1", outcome)
  \/ \E outcome \in EndpointTweets \cup {Failed} : GetTrendsFinish("r1", outcome)
  \/ \E e \in Endpoints \ {"trends"}, up \in BOOLEAN : GetCategoryLookup("r1", e, up)
  \/ \E outcome \in EndpointNews \cup {Failed} : GetCategoryNews("r1", outcome)
  \/ \E outcome \in EndpointTweets \cup {Failed} : GetCategoryFinish("r1", outcome)
  \/ \E outcome \in EndpointTweets \cup {Failed} : GetProofOfWorkFinish("r1", outcome)

SpecEndpoints == InitEndpoints /\ [][NextEndpoints]_vars

\* two paid requests, each followed through the gate and its handler
NextServed ==
  \/ \E r \in Served, q \in ServedRequests : Dispatch(r, q.path, q.hash)
  \/ \E r \in Served, o \in FacilitatorOutcomes, dbOk \in BOOLEAN : VerifyPayment(r, o, dbOk)
  \/ \E r \in Served : CallNext(r)
  \/ \E r \in Served, up \in BOOLEAN : RouteCall(r, up)
  \/ \E r \in Served, outcome \in ServedNews : GetCategoryNews(CallerOf(r), outcome)
  \/ \E r \in Served, outcome \in ServedTweets : GetProofOfWorkFinish(CallerOf(r), outcome)
  \/ \E r \in Served : RouteReturn(r)
  \/ \E r \in Served, o \in FacilitatorOutcomes, dbOk \in BOOLEAN : SettlePayment(r, o, dbOk)

SpecServed == InitEndpoints /\ [][NextServed]_vars

\* the process booting with any of its dependencies unreachable
InitStartup ==
  /\ InitPay
  /\ IdleDate
  /\ IdleNews
  /\ IdleCache
  /\ IdleHandler
  /\ IdleCleanup
  /\ IdleCat
  /\ IdleMerge
  /\ IdleSort
  /\ IdleSignal
  /\ IdleFeed
  /\ deps \in Dependencies
  /\ checks = StartupStatus(AllUp, FALSE, FALSE, FALSE)
  /\ phase = "starting"

NextStartup ==
  \/ \E tables, payment, worker \in BOOLEAN : StartupChecks(tables, payment, worker)
  \/ StartupEvent

SpecStartup == InitStartup /\ [][NextStartup]_vars

----------------------------------------------------------------------------
(* Properties of the payment gate *)

Has(r, e) == \E i \in DOMAIN events[r] : events[r][i] = e

Count(r, e) == Cardinality({ i \in DOMAIN events[r] : events[r][i] = e })

Arrived(r) == pc[r] # "idle"

PaidRequest(r) == Arrived(r) /\ IsPaid(req[r].path)

\* C1: a request to a paid endpoint that carries no X-Payment-Hash is answered
\* 402 at once; in that request the wrapped handler is never invoked, verify
\* and settle are never called, and no PaymentTransaction is created.
C1_NoHashIsChallenged ==
  \A r \in Reqs :
    (PaidRequest(r) /\ req[r].hash = NoHash) =>
      /\ pc[r] = "done"
      /\ status[r] = 402
      /\ body[r] = "payment_required"
      /\ events[r] = << "challenge" >>
      /\ verifyAnswer[r] = "none" /\ settleAnswer[r] = "none"
      /\ handlerStatus[r] = 0
      /\ \A t \in store : t.user_identifier # r /\ t.payment_hash # NoHash

C1_Witness ==
  \E r \in Reqs :
    /\ PaidRequest(r) /\ req[r].hash = NoHash
    /\ pc[r] = "done" /\ status[r] = 402

\* C2: a request to a paid endpoint whose hash fails verification (the
\* facilitator answers non-success, or the verify call raises) is answered
\* 402; the handler is never invoked, settle is never called and the request
\* persists no PaymentTransaction.
C2_FailedVerificationIsRejected ==
  \A r \in Reqs :
    (verifyAnswer[r] \in {"status", "error"}) =>
      /\ pc[r] = "done"
      /\ status[r] = 402
      /\ body[r] = "verification_failed"
      /\ events[r] = << "verify" >>
      /\ handlerStatus[r] = 0
      /\ settleAnswer[r] = "none"
      /\ \A t \in store : t.user_identifier # r

C2_Witness ==
  /\ \E r \in Reqs : verifyAnswer[r] = "status" /\ pc[r] = "done"
  /\ \E r \in Reqs : verifyAnswer[r] = "error" /\ pc[r] = "done"

\* C3: for a request whose hash verifies and whose handler returns 200, settle
\* is called exactly once in that request, and only after the handler returned.
C3_SettleOnceAfterHandler ==
  \A r \in Reqs :
    /\ \A i \in DOMAIN events[r] :
         events[r][i] = "settle" =>
           \E j \in 1..(i - 1) : events[r][j] = "handler_returned"
    /\ Count(r, "settle") <= 1
    /\ (PaidRequest(r) /\ verifyAnswer[r] = "ok" /\ handlerStatus[r] = 200) =>
         /\ pc[r] \in {"settle", "done"}
         /\ pc[r] = "done" => (Count(r, "settle") = 1 /\ settleAnswer[r] # "none")

C3_Witness ==
  \E r \in Reqs :
    /\ PaidRequest(r) /\ verifyAnswer[r] = "ok" /\ handlerStatus[r] = 200
    /\ pc[r] = "done" /\ Count(r, "settle") = 1

\* C4 (as claimed): when the handler of a verified request returns a status
\* other than 200, settle is never called and, as the request completes, its
\* PaymentTransaction is in the store with verified = true and settled = false.
C4_NonSuccessLeavesVerifiedUnsettled ==
  [][ \A r \in Reqs :
        ( /\ pc[r] = "handler" /\ pc'[r] = "done"
          /\ IsPaid(req[r].path) /\ verifyAnswer[r] = "ok"
          /\ handlerStatus'[r] # 200 )
        => /\ \A i \in DOMAIN events'[r] : events'[r][i] # "settle"
           /\ \E t \in store' : /\ t.payment_hash = req[r].hash
                                /\ t.verified /\ ~t.settled ]_vars

\* settled implies verified, for every stored row
C5_FlagsOrdered == \A t \in store : t.settled => t.verified

\* a row that stays in the store (same primary key) keeps its hash and never
\* loses a flag it has
C5_FlagsMonotone ==
  \A t \in store : \A u \in store' :
    u.id = t.id => /\ t.verified => u.verified
                   /\ t.settled => u.settled
                   /\ u.payment_hash = t.payment_hash

\* C5: every stored PaymentTransaction has settled => verified, and from one
\* state to the next the verified and settled flags of a stored row never go
\* from true to false (rows are identified by their primary key; a purged row
\* is gone, not reversed).
C5_TransactionLifecycle == [] C5_FlagsOrdered /\ [][C5_FlagsMonotone]_vars

C5_Witness == \E t \in store : t.verified /\ t.settled

\* C6 (as claimed): a payment hash authorizes exactly one request: the handler
\* is invoked for at most one request carrying a given hash, and settle is
\* called at most once for that hash.
C6_HashAuthorizesOneRequest ==
  \A h \in Hashes :
    /\ Cardinality({ r \in Reqs : PaidRequest(r) /\ req[r].hash = h
                                    /\ Has(r, "handler") }) <= 1
    /\ Cardinality({ r \in Reqs : PaidRequest(r) /\ req[r].hash = h
                                    /\ Has(r, "settle") }) <= 1

\* C7 (as claimed): when settle fails after a successful handler, the
\* PaymentTransaction stays verified = true, settled = false, settle is not
\* retried, and the client receives the handler's response unmodified.
C7_FailedSettleLeavesVerified ==
  [][ \A r \in Reqs :
        ( /\ pc[r] = "settle" /\ pc'[r] = "done"
          /\ settleAnswer'[r] \in {"status", "error"} )
        => /\ Cardinality({ i \in DOMAIN events'[r] : events'[r][i] = "settle" }) = 1
           /\ status'[r] = handlerStatus[r] /\ body'[r] = "handler"
           /\ \E t \in store' : /\ t.payment_hash = req[r].hash
                                /\ t.verified /\ ~t.settled ]_vars

\* C8 (as claimed): whenever the wrapped handler of a paid endpoint is invoked,
\* a PaymentTransaction with the request's hash and verified = true is already
\* in the store.
C8_PersistedBeforeHandler ==
  [][ \A r \in Reqs :
        (pc[r] = "call" /\ pc'[r] = "handler" /\ IsPaid(req[r].path))
        => \E t \in store : t.payment_hash = req[r].hash /\ t.verified ]_vars

----------------------------------------------------------------------------
(* Properties of the categorizer *)

Categorized == category # NoCategory

AllScoresZero == \A c \in Categories : scores[c] = 0

\* position of a category in the taxonomy order
Rank(c) == CHOOSE i \in 1..Len(CategoryOrder) : CategoryOrder[i] = c

\* C9: for every item, whatever subset of title, content and text it carries,
\* categorize_item returns exactly one of the five taxonomy categories, and it
\* returns "trends" when every category's keyword score is zero.
C9_OneTaxonomyCategory ==
  Categorized =>
    /\ category \in Categories
    /\ AllScoresZero => category = "trends"

C9_Witness ==
  /\ Categorized /\ AllScoresZero /\ category = "trends"
  /\ DOMAIN item = {"text"}

\* C10: categorize_item returns a category of highest keyword score, and among
\* the categories sharing the highest score the one that comes first in the
\* taxonomy order; the result is thus determined by the score vector.
C10_HighestScoreFirstInOrder ==
  Categorized =>
    /\ category \in Categories
    /\ \A c \in Categories : scores[c] <= scores[category]
    /\ \A c \in Categories :
         scores[c] = scores[category] => Rank(category) <= Rank(c)

C10_Witness ==
  /\ Categorized
  /\ scores[category] > 0
  /\ \E c \in Categories : c # category /\ scores[c] = scores[category]

----------------------------------------------------------------------------
(* Properties of the merger and of sort_by_date *)

Range(s) == { s[i] : i \in DOMAIN s }

\* the items the merge call was handed
InputItems == Range(news_items) \cup Range(tweets)

\* the input items a returned item can come from
OriginsOf(out) == { src \in InputItems : format_item(normalize_item(src)) = out }

\* C11: every item merge_by_category(c, news, tweets) returns is the formatted
\* form of an input item, and every input item it can come from has computed
\* category c: no item of another category appears in the result.
C11_OnlyRequestedCategory ==
  merged.status = "ok" =>
    \A i \in DOMAIN merged.items :
      /\ OriginsOf(merged.items[i]) # {}
      /\ \A src \in OriginsOf(merged.items[i]) :
           categorize_item(src) = merged.category

\* a merge that returned a news item and a tweet and left out an input item of
\* another category
C11_Witness ==
  /\ merged.status = "ok"
  /\ \E i, j \in DOMAIN merged.items :
       merged.items[i].source = "cryptonews" /\ merged.items[j].source = "twitter"
  /\ \E src \in InputItems : categorize_item(src) # merged.category

\* position of x in the list sort_by_date returned
SortedPos(x) == CHOOSE j \in DOMAIN sorted_items.items : sorted_items.items[j] = x

\* C12: sort_by_date(items, descending=True) returns a permutation of items,
\* ordered by non-increasing instant, in which two items of the same instant
\* keep the relative order they had in the input.
C12_StableDescendingPermutation ==
  (sorted_items.status = "ok" /\ descending) =>
    LET out == sorted_items.items
    IN  /\ Len(out) = Len(unsorted)
        /\ \A i \in DOMAIN unsorted : \E j \in DOMAIN out : out[j] = unsorted[i]
        /\ \A i, j \in DOMAIN out :
             i < j => SortKey(out[i]).t >= SortKey(out[j]).t
        /\ \A i, j \in DOMAIN unsorted :
             (i < j /\ SortKey(unsorted[i]).t = SortKey(unsorted[j]).t)
               => SortedPos(unsorted[i]) < SortedPos(unsorted[j])

\* a descending sort that had to move an item and met two items of one instant
C12_Witness ==
  /\ sorted_items.status = "ok"
  /\ descending
  /\ sorted_items.items # unsorted
  /\ \E i, j \in DOMAIN unsorted :
       /\ i < j
       /\ "normalized_date" \in DOMAIN unsorted[i]
       /\ "normalized_date" \in DOMAIN unsorted[j]
       /\ unsorted[i].normalized_date = unsorted[j].normalized_date

----------------------------------------------------------------------------
(* Properties of the signal and snapshot writes *)

\* the ids the items of batch b carry
IdsOf(b) == { b[i].id : i \in 1..Len(b) } \ { NoneId }

\* worker w is at the commit of its delivery
AtCommit(w) == spc[w] = "loop" /\ si[w] > Len(smsg[w])

\* every id of the delivery worker w runs is already in the table
AllStored(w) == \A id \in IdsOf(smsg[w]) : RowsWithId(id) # { }

\* no id is held by two rows
C13_OneRowPerId ==
  \A r1, r2 \in signal_items : r1.id = r2.id => r1 = r2

\* a batch one of whose deliveries committed has exactly one row per id
C13_CommittedOnce ==
  \A b \in SignalBatches :
    scommitted[b] > 0 =>
      \A id \in IdsOf(b) : Cardinality(RowsWithId(id)) = 1

\* the delivery of items that are all stored ends without touching the table
C13_RedeliveryAddsNothing ==
  \A w \in Workers :
    (AtCommit(w) /\ IdsOf(smsg[w]) # { } /\ AllStored(w) /\ spc'[w] = "idle")
      => signal_items' = signal_items

FeedQueryStep(w) == fpc[w] = "idle" /\ fpc'[w] = "commit"

\* worker w ends a delivery in this step and its commit goes through
FeedWriteStep(w) ==
  fpc[w] = "commit" /\ fpc'[w] = "idle" /\ fcommitted' = fcommitted + 1

\* the branch taken is the one of the most recent snapshot of the category
C14_FindsMostRecent ==
  \A w \in Workers :
    FeedQueryStep(w) =>
      LET c == fmsg'[w].category
          p == fplan'[w]
      IN  IF \E f \in LatestFeeds(c) : clock - f.last_updated < SNAPSHOT_WINDOW
            THEN p.op = "update" /\ \E f \in LatestFeeds(c) : f.id = p.id
            ELSE p.op = "insert"

\* an update overwrites list, count and time of the row found, in place; an
\* insert adds one row; nothing else changes
C14_OverwriteOrInsert ==
  \A w \in Workers :
    FeedWriteStep(w) =>
      LET p == fplan[w]
          m == fmsg[w]
      IN  IF p.op = "update"
            THEN /\ Cardinality(category_feeds') = Cardinality(category_feeds)
                 /\ \E f \in category_feeds :
                      /\ f.id = p.id
                      /\ category_feeds' = (category_feeds \ {f}) \cup
                           { CategoryFeed(f.id, f.category, m.items, p.ts, f.created_at) }
            ELSE /\ Cardinality(category_feeds') = Cardinality(category_feeds) + 1
                 /\ \E id \in { f.id : f \in category_feeds' } \ { f.id : f \in category_feeds } :
                      category_feeds' = category_feeds \cup
                        { CategoryFeed(id, m.category, m.items, p.ts, clock) }

\* a write that follows another one of its category (nothing was written
\* between its SELECT and its commit) within the window leaves the one row,
\* holding the list of the later write
C14_SecondWriteWithinWindow ==
  \A w \in Workers :
    (FeedWriteStep(w) /\ fplan[w].seen = category_feeds) =>
      LET c == fmsg[w].category
      IN  \A f \in category_feeds :
            (FeedsOf(c) = {f} /\ clock - f.last_updated < SNAPSHOT_WINDOW) =>
              { g \in category_feeds' : g.category = c } =
                { CategoryFeed(f.id, c, fmsg[w].items, clock, f.created_at) }

----------------------------------------------------------------------------
(* Properties of the cleanup jobs *)

\* the last run committed
Cleaned(job) == cleanupLog.job = job /\ cleanupLog.outcome = "committed"

\* after a committed run no row older than the cutoff is left in the tables
\* of the job
C15_NoOldRowLeft ==
  /\ (Cleaned("cleanup_old_data") \/ Cleaned("cleanup_old_signals")) =>
       /\ \A s \in signal_items : s.timestamp >= cutoff_timestamp
       /\ \A f \in category_feeds : f.last_updated >= cutoff_timestamp
  /\ Cleaned("cleanup_old_data") =>
       \A t \in store : t.created_at >= cutoff_datetime

\* a run removes no row at or after the cutoff, and adds or changes none
C15_OnlyOldRowsGo ==
  /\ signal_items' \subseteq signal_items
  /\ category_feeds' \subseteq category_feeds
  /\ store' \subseteq store
  /\ \A s \in signal_items \ signal_items' : s.timestamp < cutoff_timestamp
  /\ \A f \in category_feeds \ category_feeds' : f.last_updated < cutoff_timestamp
  /\ \A t \in store \ store' : t.created_at < cutoff_datetime

----------------------------------------------------------------------------
(* Properties of the cache *)

\* this step is a call of get(k) that Redis answered
GetStep(k) == lastGet' # lastGet /\ lastGet'.key = k /\ ~lastGet'.failed

\* an entry was stored under k and its TTL has elapsed
Expired(k) == cache[k] # NoEntry /\ clock >= cache[k].expires_at

----------------------------------------------------------------------------
(* Properties of the trends handler *)

\* the timestamp a request put into the envelope it assembled
AssembledAt(r) == hreq[r].result.v["_metadata"].timestamp

\* C17: a request whose lookup finds an unexpired entry under "markets:trends"
\* returns that entry with status 200, leaves the cache as it is and calls
\* neither the news source nor the social source; so, after the request that
\* wrote an entry, the requests that look the entry up before its TTL has
\* elapsed add no upstream fetch.
C17_HitMakesNoFetch ==
  \A r \in Callers :
    hreq[r].window =>
      /\ hreq[r].pc = "done"
      /\ hreq[r].fetched = {}
      /\ hreq[r].response = Reply(200, hreq[r].lookup)

C17_HitReturnsEntry ==
  \A r \in Callers :
    (hreq'[r] # hreq[r] /\ hreq'[r].window) =>
      /\ hreq'[r].response.body = cache[TRENDS_KEY].given
      /\ cache' = cache

C17_CacheGate == [] C17_HitMakesNoFetch /\ [][C17_HitReturnsEntry]_vars

\* one request fetched from both sources and wrote its envelope; half a TTL
\* later a second request found that entry and returned it
C17_Witness ==
  \E r1, r2 \in Callers :
    /\ r1 # r2
    /\ hreq[r1].wrote /\ hreq[r1].fetched = Sources
    /\ Live(TRENDS_KEY) /\ cache[TRENDS_KEY].given = hreq[r1].result
    /\ AssembledAt(r1) < clock
    /\ hreq[r2].window /\ hreq[r2].pc = "done"
    /\ hreq[r2].response.body = hreq[r1].result

\* C18: the handler takes no lock between lookup and write: every request
\* whose lookup returned nothing calls both sources itself, whatever the
\* other requests do, and every cache write that reaches Redis replaces the
\* entry by the writer's own envelope with a fresh TTL, so the entry in the
\* cache is that of the last writer.
C18_EachMissFetches ==
  \A r \in Callers :
    ~Truthy(hreq[r].lookup) =>
      /\ hreq[r].pc = "news" => hreq[r].fetched = {"news"}
      /\ hreq[r].pc \in {"tweets", "done"} => hreq[r].fetched = Sources

C18_WriterReplacesEntry ==
  \A r \in Callers :
    (hreq[r].pc = "tweets" /\ hreq'[r].pc = "done" /\ hreq'[r].wrote) =>
      cache'[TRENDS_KEY] =
        CacheEntry(json_dumps(hreq'[r].result), clock + REDIS_TTL, hreq'[r].result)

C18_LastWriterWins == [] C18_EachMissFetches /\ [][C18_WriterReplacesEntry]_vars

\* two requests whose lookups Redis answered with a miss at the same instant
\* both fetched, assembled different envelopes and wrote them; the entry is
\* the second writer's
C18_Witness ==
  \E r1, r2 \in Callers :
    /\ r1 # r2
    /\ \A r \in {r1, r2} :
         /\ hreq[r].pc = "done" /\ hreq[r].answered /\ ~hreq[r].window
         /\ hreq[r].fetched = Sources /\ hreq[r].wrote
         /\ AssembledAt(r) = clock
    /\ hreq[r1].result # hreq[r2].result
    /\ cache[TRENDS_KEY].given = hreq[r2].result

\* C19: a request during which exactly one source failed took an empty list
\* for that source and completed with status 200 and the envelope built from
\* the other source's items.
C19_OneSourceDownStillSucceeds ==
  \A r \in Callers :
    (hreq[r].pc = "done" /\ Cardinality(hreq[r].failed) = 1) =>
      /\ "news" \in hreq[r].failed => hreq[r].news = << >>
      /\ "tweets" \in hreq[r].failed => hreq[r].tw = << >>
      /\ hreq[r].response = Reply(200, hreq[r].result)
      /\ hreq[r].result # PyNone

----------------------------------------------------------------------------
(* Properties of the retry policy of the signal write *)

\* the smaller of two numbers
Min(a, b) == IF a < b THEN a ELSE b

\* C21: every delivery of a batch that ends on a store error is followed by
\* a retry as long as fewer than 3 retries were made: a batch with k failed
\* deliveries has been put back on the queue min(k, 3) times, so it is
\* dropped only after the retries are exhausted.
C21_RetriedUntilExhausted ==
  \A b \in SignalBatches :
    sretried[b] >= Min(stransient[b], MAX_RETRIES)

----------------------------------------------------------------------------
(* Properties of the startup sequence *)

\* C22: when the database, the cache, the news source or the social source
\* is unreachable at boot, the process never serves requests, and the end
\* of the startup sequence is the exit of the process.
C22_NeverServes == deps # AllUp => phase # "serving"

C22_EndsWithExit ==
  (deps # AllUp /\ phase = "checked") => phase' = "exited"

C22_FatalStartupFailure == [] C22_NeverServes /\ [][C22_EndsWithExit]_vars

\* only the cache was unreachable: every check but the Redis one passed and
\* the process has exited
C22_Witness ==
  /\ phase = "exited"
  /\ deps = [AllUp EXCEPT !.cache = FALSE]
  /\ checks = StartupStatus(deps, TRUE, TRUE, TRUE)

----------------------------------------------------------------------------
(* Properties of merge_feeds, merge_by_category on long feeds, and
   categorize_items *)

\* the sum of f over the categories
RECURSIVE SumOver(_, _)
SumOver(f, S) ==
  IF S = {} THEN 0
  ELSE LET c == CHOOSE x \in S : TRUE IN f[c] + SumOver(f, S \ {c})

\* the positions of sequence cats that hold c, in ascending order
RECURSIVE PositionsOf(_, _, _)
PositionsOf(cats, c, i) ==
  IF i > Len(cats) THEN << >>
  ELSE IF cats[i] = c THEN << i >> \o PositionsOf(cats, c, i + 1)
       ELSE PositionsOf(cats, c, i + 1)

\* C23: merge_feeds(news, tweets) reports total_items = |news| + |tweets|
\* with the two per-source counts; recent_items are the first 20 items of
\* the globally sorted sequence; every category holds the first 10 items of
\* that category in the order of the global sort, and the counts of the five
\* categories sum to the total.
C23_MergeFeedsShape ==
  merged_data.status = "ok" =>
    \A G \in { sort_by_date(Normalized(news_items) \o Normalized(tweets), TRUE).items } :
    \A cats \in { << >> \o [i \in DOMAIN G |-> categorize_item(G[i])] } :
      /\ merged_data.total_items = Len(news_items) + Len(tweets)
      /\ merged_data.news_count = Len(news_items)
      /\ merged_data.tweets_count = Len(tweets)
      /\ Len(merged_data.recent_items) = Min(Len(G), RECENT_LIMIT)
      /\ \A i \in DOMAIN merged_data.recent_items :
           merged_data.recent_items[i] = WithCategory(G[i], cats[i])
      /\ DOMAIN merged_data.categories = Categories
      /\ \A c \in Categories :
           \A at \in { PositionsOf(cats, c, 1) } :
             LET entry == merged_data.categories[c]
             IN  /\ entry.count = Len(at)
                 /\ Len(entry.items) = Min(Len(at), BUCKET_LIMIT)
                 /\ \A k \in DOMAIN entry.items :
                      entry.items[k] = format_item(G[at[k]])
      /\ SumOver([c \in Categories |-> merged_data.categories[c].count], Categories)
           = merged_data.total_items

\* a merge of more than 20 items in which a category holds more than 10
C23_Witness ==
  /\ merged_data.status = "ok"
  /\ merged_data.total_items > RECENT_LIMIT
  /\ Len(merged_data.recent_items) = RECENT_LIMIT
  /\ \E c \in Categories :
       /\ merged_data.categories[c].count > BUCKET_LIMIT
       /\ Len(merged_data.categories[c].items) = BUCKET_LIMIT
  /\ \E c \in Categories : merged_data.categories[c].count \in 1..BUCKET_LIMIT

\* the instant an item of an output shows: its normalized_date, or the
\* published_at a formatted item carries
ShownInstant(it) ==
  IF "normalized_date" \in DOMAIN it THEN it.normalized_date.t ELSE it.published_at.t

\* the position in its input feed of the item an output item was made from
InputPosition(it) ==
  IF it.source = "cryptonews"
    THEN CHOOSE p \in DOMAIN news_items : news_items[p].url = it.url
    ELSE CHOOSE p \in DOMAIN tweets : tweets[p].url = it.url

\* same-instant items of out: news before tweets, and input order within a
\* source
TiesInInputOrder(out) ==
  \A i, j \in DOMAIN out :
    (i < j /\ ShownInstant(out[i]) = ShownInstant(out[j])) =>
      /\ ~ (out[i].source = "twitter" /\ out[j].source = "cryptonews")
      /\ out[i].source = out[j].source => InputPosition(out[i]) < InputPosition(out[j])

\* a news item and a tweet of one instant, and two news items of one instant
HasTies(out) ==
  /\ \E i, j \in DOMAIN out :
       /\ i < j
       /\ ShownInstant(out[i]) = ShownInstant(out[j])
       /\ out[i].source = "cryptonews" /\ out[j].source = "twitter"
  /\ \E i, j \in DOMAIN out :
       /\ i < j
       /\ ShownInstant(out[i]) = ShownInstant(out[j])
       /\ out[i].source = out[j].source

\* C24: in what merge_feeds and merge_by_category return, a news item and a
\* tweet of the same instant appear news first, and two items of one source
\* with the same instant keep their input order.
C24_TiesKeepConcatenationOrder ==
  /\ merged_data.status = "ok" =>
       /\ TiesInInputOrder(merged_data.recent_items)
       /\ \A c \in Categories : TiesInInputOrder(merged_data.categories[c].items)
  /\ merged.status = "ok" => TiesInInputOrder(merged.items)

\* both merges returned outputs that hold such ties
C24_Witness ==
  /\ merged_data.status = "ok"
  /\ HasTies(merged_data.recent_items)
  /\ \E c \in Categories : HasTies(merged_data.categories[c].items)
  /\ merged.status = "ok"
  /\ HasTies(merged.items)

\* the inputs of each feed that fall in the category asked for
MatchingNews == { x \in Range(news_items) : categorize_item(x) = merged.category }
MatchingTweets == { x \in Range(tweets) : categorize_item(x) = merged.category }

\* C25: merge_by_category filters before it truncates: news_count and
\* tweets_count count the matching inputs of each feed, total_items is their
\* sum, and the items are the first 50 of all matching inputs in descending
\* order of instant, so that no matching input is left out while fewer than
\* 50 are returned or in favour of a later or non-matching one.
C25_FilterBeforeTruncate ==
  merged.status = "ok" =>
    \A mn \in { MatchingNews } : \A mt \in { MatchingTweets } :
    \A shown \in { { merged.items[k].url : k \in DOMAIN merged.items } } :
      /\ merged.news_count = Cardinality(mn)
      /\ merged.tweets_count = Cardinality(mt)
      /\ merged.total_items = merged.news_count + merged.tweets_count
      /\ Len(merged.items) = Min(merged.total_items, ITEMS_LIMIT)
      /\ Cardinality(shown) = Len(merged.items)
      /\ shown \subseteq { x.url : x \in mn \cup mt }
      /\ \A i, j \in DOMAIN merged.items :
           i < j => ShownInstant(merged.items[i]) >= ShownInstant(merged.items[j])
      /\ \A x \in mn \cup mt :
           x.url \notin shown =>
             \A k \in DOMAIN merged.items :
               ShownInstant(merged.items[k]) >= ShownInstant(normalize_item(x))

\* a category with more than 50 matching inputs from both feeds, asked for
\* on feeds that also hold other categories
C25_Witness ==
  /\ merged.status = "ok"
  /\ merged.total_items > ITEMS_LIMIT
  /\ Len(merged.items) = ITEMS_LIMIT
  /\ merged.news_count > ITEMS_LIMIT
  /\ merged.tweets_count > 0
  /\ \E x \in Range(SubSeq(news_items, 1, ITEMS_LIMIT)) : categorize_item(x) # merged.category
  /\ \E x \in Range(tweets) : categorize_item(x) # merged.category

\* how many entries of sequence s equal x
Occurrences(s, x) == Cardinality({ k \in DOMAIN s : s[k] = x })

\* the position of x in sequence s
PositionIn(s, x) == CHOOSE p \in DOMAIN s : s[p] = x

\* C26: categorize_items(items) sets the category field of every item and
\* returns one bucket for each of the five categories; every item is in the
\* bucket of its category exactly once and in no other bucket, and the items
\* of a bucket are in the order they had in the input.
C26_StablePartition ==
  categorized.status = "ok" =>
    /\ DOMAIN categorized.buckets = Categories
    /\ \A i \in DOMAIN cat_items :
         /\ "category" \in DOMAIN cat_items[i]
         /\ cat_items[i].category = categorize_item(Headlined(i, cat_items[i].title))
         /\ \A c \in Categories :
              Occurrences(categorized.buckets[c], cat_items[i])
                = IF c = cat_items[i].category THEN 1 ELSE 0
    /\ \A c \in Categories :
         /\ Range(categorized.buckets[c]) \subseteq Range(cat_items)
         /\ \A k, l \in DOMAIN categorized.buckets[c] :
              k < l => PositionIn(cat_items, categorized.buckets[c][k])
                         < PositionIn(cat_items, categorized.buckets[c][l])

\* three items, the first and the last of one category and the middle one of
\* another
C26_Witness ==
  /\ categorized.status = "ok"
  /\ Len(cat_items) = 3
  /\ cat_items[1].category = cat_items[3].category
  /\ cat_items[2].category # cat_items[1].category
  /\ cat_items[1].category # CategoryOrder[1]
  /\ Len(categorized.buckets[cat_items[1].category]) = 2

\* C27: normalize_date returns a datetime for a value of every kind (a
\* datetime, a number, a string a parser accepts, a string none accepts, a
\* value of another type) and never raises; when nothing could be read from
\* the value the datetime returned is the current time.
C27_NormalizeNeverRaises ==
  date_result.status = "done" =>
    /\ ~ date_result.raised
    /\ date_result.value \in [t : 0..(MaxStamp + MergeTime), aware : BOOLEAN]
    /\ (\/ date_value.kind \in {"unparsable", "other"}
        \/ (date_value.kind = "number" /\ date_value.t > MaxStamp))
         => date_result.value = utcnow
    /\ (\/ date_value.kind \in {"datetime", "iso", "text"}
        \/ (date_value.kind = "number" /\ date_value.t <= MaxStamp))
         => date_result.value.t = date_value.t

\* the call was made on a number fromtimestamp refuses
C27_Witness ==
  /\ date_result.status = "done"
  /\ date_value.kind = "number"
  /\ date_value.t > MaxStamp
  /\ date_result.value = utcnow

\* the keys of the envelope of a category endpoint
EnvelopeKeys ==
  { "category", "total_items", "news_count", "tweets_count", "items", "_metadata" }

\* C28: at each of the five category endpoints a request that misses the
\* cache is answered with an envelope holding category, total_items,
\* news_count, tweets_count, items and _metadata, in which category is the
\* category the endpoint is named after and items are what merge_by_category
\* returns for that category on the lists fetched.
C28_EnvelopeOfEndpointCategory ==
  \A r \in Callers :
    (hreq[r].pc = "done" /\ hpath[r] \in Endpoints /\ ~ Truthy(hreq[r].lookup)) =>
      /\ hreq[r].response.status = 200
      /\ hreq[r].response.body.type = "dict"
      /\ EnvelopeKeys \subseteq DOMAIN hreq[r].response.body.v
      /\ hreq[r].response.body.v.category = hpath[r]
      /\ hreq[r].response.body.v.items
           = merge_by_category(hpath[r], hreq[r].news, hreq[r].tw).items

\* C29: whenever settle succeeds for the payment hash of a request, the store
\* holds afterwards a PaymentTransaction with that hash that is verified and
\* settled.
C29_SettledIsRecorded ==
  [][ \A r \in Reqs :
        (pc[r] = "settle" /\ pc'[r] = "done" /\ settle_payment(settleAnswer'[r]))
        => \E t \in store' : /\ t.payment_hash = req[r].hash
                             /\ t.verified /\ t.settled ]_vars

\* C30: a request that misses the cache and is answered with items has sent
\* the two persistence tasks for the items of its response before it returns.
C30_PersistenceEnqueuedForResponse ==
  \A r \in Callers :
    ( /\ hreq[r].pc = "done"
      /\ ~ Truthy(hreq[r].lookup)
      /\ hreq[r].response.status = 200
      /\ "items" \in DOMAIN hreq[r].response.body.v
      /\ hreq[r].response.body.v.items # << >> )
    => \E i \in DOMAIN enqueued :
         /\ enqueued[i].actor = "save_signal_items"
         /\ enqueued[i].items = hreq[r].response.body.v.items

----------------------------------------------------------------------------
(* Properties of the envelope, of the dates of a sorted list, of the two
   persistence tasks, and of the payment gate's paths *)

\* the envelope of a miss counts in _metadata.total_items the items it carries
C31_MetadataCountsItems ==
  \A r \in Callers :
    ( /\ hreq[r].pc = "done"
      /\ hreq[r].result # PyNone
      /\ "items" \in DOMAIN hreq[r].result.v )
    => hreq[r].result.v["_metadata"].total_items = Len(hreq[r].result.v.items)

\* the envelope returned is the value handed to redis_client.set under the
\* handler's key
C31_EnvelopeIsCached ==
  \A r \in Callers :
    (hreq[r].pc = "tweets" /\ hreq'[r].pc = "done" /\ hreq'[r].wrote) =>
      /\ hreq'[r].response = Reply(200, hreq'[r].result)
      /\ cache'[CacheKeyOf(hpath[r])].given = hreq'[r].result

\* C31: in the envelope a category handler computes on a cache miss,
\* _metadata.total_items is the number of items the response carries, and
\* that envelope is what the handler stores in the cache under its key.
C31_EnvelopeMetadata == [] C31_MetadataCountsItems /\ [][C31_EnvelopeIsCached]_vars

\* the normalized items of the two feeds handed to the merger
NormalizedInputs == Range(Normalized(news_items) \o Normalized(tweets))

\* C32: the datetimes normalize_date produces, whatever the value they were
\* read from, can be compared with one another, and the sort of the merger,
\* which is handed normalized items only, succeeds.
C32_NormalizedInstantsComparable ==
  merged.status # "none" =>
    /\ \A x, y \in NormalizedInputs : Comparable(SortKey(x), SortKey(y))
    /\ merged.status = "ok"

Dated(x) == "normalized_date" \in DOMAIN x

RowsFrom(it) ==
  { r \in signal_items : r.signal = it.signal /\ r.timestamp = it.timestamp }

\* C34: an item without id is written once: however often it is delivered,
\* one signal_items row at most holds it, and exactly one once a write of
\* its batch has gone through.
C34_NoIdWrittenOnce ==
  \A b \in SignalBatches : \A i \in DOMAIN b :
    b[i].id = NoneId =>
      /\ Cardinality(RowsFrom(b[i])) <= 1
      /\ scommitted[b] > 0 => Cardinality(RowsFrom(b[i])) = 1

\* the batch holds one id at two positions
HasDuplicateId(b) ==
  \E i, j \in DOMAIN b : i # j /\ b[i].id # NoneId /\ b[i].id = b[j].id

\* C38: when the delivery of a batch that holds an id twice ends and the
\* store did not fail, the table holds exactly one row for every id of the
\* batch.
C38_DuplicateInBatchKeepsBatch ==
  [][ \A w \in Workers :
        ( /\ AtCommit(w) /\ spc'[w] = "idle"
          /\ HasDuplicateId(smsg[w])
          /\ stransient' = stransient )
        => \A id \in IdsOf(smsg[w]) :
             Cardinality({ r \in signal_items' : r.id = id }) = 1 ]_vars

\* the times of the writes of category c that went through, in order
WriteTimes(c) ==
  LET ws == SelectSeq(fwritten, LAMBDA x : x.category = c)
  IN  [i \in DOMAIN ws |-> ws[i].at]

\* consecutive writes are less than an hour apart and the last is more than
\* an hour after the first
FrequentOverAnHour(ts) ==
  /\ Len(ts) >= 2
  /\ \A i \in 1..(Len(ts) - 1) : ts[i] <= ts[i + 1] /\ ts[i + 1] - ts[i] < SNAPSHOT_WINDOW
  /\ ts[Len(ts)] - ts[1] > SNAPSHOT_WINDOW

\* C35: when the writes of a category come less than an hour apart over more
\* than an hour, the table holds more than one snapshot of the category, and
\* no more than one for each hour begun since the first write.
C35_HourlyHistory ==
  \A c \in Categories :
    FrequentOverAnHour(WriteTimes(c)) =>
      LET ts == WriteTimes(c)
      IN  /\ Cardinality(FeedsOf(c)) > 1
          /\ Cardinality(FeedsOf(c)) <= (ts[Len(ts)] - ts[1]) \div SNAPSHOT_WINDOW + 1

BeginsWithPaidEndpoint(p) ==
  \E n \in DOMAIN PAID_ENDPOINTS :
    /\ Len(PAID_ENDPOINTS[n]) <= Len(p)
    /\ \A i \in DOMAIN PAID_ENDPOINTS[n] : p[i] = PAID_ENDPOINTS[n][i]

GateEvents == { "challenge", "verify", "persist", "persist_failed", "settle",
                "settled", "settled_unrecorded" }

C40_InvalidKeyStaysInvalid ==
  /\ ~ (api_key_validated /\ api_key_invalid)
  /\ last_fetch.after401 => (~ last_fetch.contacted /\ last_fetch.returned = << >>)

\* the handler of request r ended with a response other than 200
HandlerFailed(r) == hreq[CallerOf(r)].response.status \notin {0, 200}

\* the transactions of the requests other than r
RowsOfOthers(r) == { t \in store : t.user_identifier # r }

\* a request whose handler failed has written nothing to the cache and has
\* made no settlement
C36_FailedWroteNothing ==
  \A r \in Served :
    HandlerFailed(r) =>
      /\ ~ hreq[CallerOf(r)].wrote
      /\ ~ Has(r, "settle")
      /\ settleAnswer[r] = "none"

\* the step in which a handler fails, and every later step of that request,
\* leaves every cache entry and every transaction of another request as it was
C36_FailedStepFrame ==
  \A r \in Served :
    (/\ HandlerFailed(r)'
     /\ (pc'[r] # pc[r] \/ hreq'[CallerOf(r)] # hreq[CallerOf(r)])) =>
      /\ cache' = cache
      /\ RowsOfOthers(r)' = RowsOfOthers(r)

\* C36: a request whose handler ends with anything other than HTTP 200 writes
\* no cache entry and changes no PaymentTransaction other than its own: the
\* cache entries and the transactions of the other requests are the same
\* before and after each of its steps.
C36_FailureIsIsolated == [] C36_FailedWroteNothing /\ [][C36_FailedStepFrame]_vars

\* one request's handler failed and the request is over, while the other
\* request was answered 200, its envelope is in the cache and its transaction
\* is settled
C36_Witness ==
  \E r \in Served, o \in Served :
    /\ r # o
    /\ pc[r] = "done" /\ HandlerFailed(r) /\ handlerStatus[r] = 500
    /\ \E t \in store : t.user_identifier = r /\ ~ t.settled
    /\ pc[o] = "done" /\ handlerStatus[o] = 200
    /\ hreq[CallerOf(o)].wrote
    /\ cache[CacheKeyOf(hpath[CallerOf(o)])] # NoEntry
    /\ \E t \in store : t.user_identifier = o /\ t.settled

====
